---------------------------- MODULE Spec2Model ----------------------------
(***************************************************************************)
(* Model of the semantic-search core: the paragraph chunker, the vector    *)
(* store adapter (VectorDatabase), the embedding service, the indexer      *)
(* (indexFile / indexDirectory / reindexAll) and hybridSearch.             *)
(*                                                                         *)
(* Strings are modelled structurally: a document is the sequence of the    *)
(* pieces content.split(/\n\s*\n/) yields, each piece a record             *)
(* [len, lines, words] (trimmed length, number of lines, the words it      *)
(* contains); a chunk text is the sequence of paragraphs joined by "\n\n". *)
(* Scores and distances are integers in thousandths.                       *)
(***************************************************************************)
EXTENDS Integers, Sequences, FiniteSets

\* ------------------------------------------------------------------ bounds
MaxFaults == 2
MaxEdits == 1
MaxLimit == 2
MaxParas == 3
MaxTexts == 65

\* ------------------------------------------------------- program constants
maxChunkSize == 1000
minChunkSize == 200
SeparatorLen == 2
KeywordBoost == 200
MinKeywordLen == 3
ScoreCap == 1000
\* the number 1 on the scale of the scores (thousandths)
Unit == 1000
OverFetch == 2
ChunksPerFile == 5
batchSize == 32

Paths == {1, 2}
Procs == {1, 2}
Nil == <<>>
\* initializationPromise = null: the promise of no load
NoLoad == 0

\* ----------------------------------------------------------------- helpers
RECURSIVE SumSeq(_)
SumSeq(s) == IF s = <<>> THEN 0 ELSE Head(s) + SumSeq(Tail(s))

RECURSIVE Flatten(_)
Flatten(ss) == IF ss = <<>> THEN <<>> ELSE Head(ss) \o Flatten(Tail(ss))

Min(a, b) == IF a <= b THEN a ELSE b

Range(s) == {s[i] : i \in 1..Len(s)}

\* Ascending enumeration of a finite set of integers.
RECURSIVE SortedSeq(_)
SortedSeq(S) ==
  IF S = {} THEN <<>>
  ELSE LET m == CHOOSE x \in S : \A y \in S : x <= y
       IN <<m>> \o SortedSeq(S \ {m})

CeilDiv(a, b) == (a + b - 1) \div b

\* ------------------------------------------------------------------- words
\* A word is a number: 1, 2 and 4 are long words, 3 is a word of three
\* characters, 4 is a word that contains the word 1 (as "indexing" contains
\* "index"), and 10 + w is the word w written with capital letters.
\* String.prototype.toLowerCase on one word
toLowerCase(w) == w % 10

\* word.length
WordLen(w) ==
  CASE toLowerCase(w) = 1 -> 5
    [] toLowerCase(w) = 2 -> 8
    [] toLowerCase(w) = 4 -> 8
    [] OTHER -> 3

\* the words that occur as substrings of the word w
Substrings(w) == IF w = 4 THEN {1, 4} ELSE {w}

\* --------------------------------------------------------------- documents
Para(n, l, w) == [len |-> n, lines |-> l, words |-> w]

\* A file content: lead blank lines, then the paragraphs paras, paragraph i
\* followed by gaps[i] blank lines (at least one between two paragraphs).
Content(lead, paras, gaps) == [lead |-> lead, paras |-> paras, gaps |-> gaps]

\* The file contents the model draws from.
Doc(d) ==
  CASE d = "short" -> Content(0, << Para(50, 1, {1}) >>, <<0>>)
    [] d = "blank" -> Content(0, << >>, << >>)
    [] d = "long"  -> Content(0, << Para(600, 2, {1}), Para(600, 1, {2}),
                                   Para(600, 4, {1, 3}) >>, <<2, 1, 0>>)
    [] OTHER -> Content(0, << >>, << >>)

Docs == {"short", "blank", "long"}
Missing == "missing"

\* ----------------------------------------------------------------- chunker
\* content.split(/\n\s*\n/), each piece trimmed: a run of blank lines is one
\* separator whatever its length; the pieces before a separator that opens
\* the content and behind one that closes it are empty, and so is the only
\* piece of a content without paragraphs.
split(content) ==
  LET n == Len(content.paras)
      empty == Para(0, 1, {})
  IN IF n = 0
     THEN IF content.lead >= 2 THEN <<empty, empty>> ELSE <<empty>>
     ELSE (IF content.lead >= 2 THEN <<empty>> ELSE <<>>)
            \o content.paras
            \o (IF content.gaps[n] >= 1 THEN <<empty>> ELSE <<>>)

\* currentChunk.length for a buffer holding the paragraphs of text
TextLen(text) ==
  IF text = <<>> THEN 0
  ELSE SumSeq([i \in 1..Len(text) |-> text[i].len]) + SeparatorLen * (Len(text) - 1)

createChunk(text, filePath, lineStart, lineEnd, chunkIndex) ==
  [ id |-> <<filePath, chunkIndex>>,
    text |-> text,
    file_path |-> filePath,
    line_start |-> lineStart,
    line_end |-> lineEnd,
    chunk_index |-> chunkIndex,
    char_count |-> TextLen(text) ]

advanceLineStartNot(st) == st.currentLineStart

\* currentLineStart += currentLineCount
advanceLineStart(st) == st.currentLineStart + st.currentLineCount

\* One iteration of the paragraph loop on the loop state st.
chunkStep(st, paragraph, filePath) ==
  IF paragraph.len = 0 THEN st
  ELSE IF /\ TextLen(st.currentChunk) > 0
          /\ TextLen(st.currentChunk) + paragraph.len > maxChunkSize
          /\ TextLen(st.currentChunk) >= minChunkSize
       THEN [ chunks |-> Append(st.chunks,
                           createChunk(st.currentChunk, filePath, st.currentLineStart,
                                       st.currentLineStart + st.currentLineCount - 1,
                                       st.chunkIndex)),
              currentChunk |-> <<paragraph>>,
              currentLineStart |-> advanceLineStart(st),
              currentLineCount |-> paragraph.lines,
              chunkIndex |-> st.chunkIndex + 1 ]
       ELSE [ st EXCEPT !.currentChunk = Append(st.currentChunk, paragraph),
                        !.currentLineCount = st.currentLineCount + paragraph.lines ]

RECURSIVE chunkLoop(_, _, _, _)
chunkLoop(paragraphs, i, st, filePath) ==
  IF i > Len(paragraphs) THEN st
  ELSE chunkLoop(paragraphs, i + 1, chunkStep(st, paragraphs[i], filePath), filePath)

finalChunkKeptIfLong(st) == TextLen(st.currentChunk) >= minChunkSize

\* "Add final chunk": whether the buffer left by the loop is emitted
finalChunkKept(st) == TextLen(st.currentChunk) >= minChunkSize \/ Len(st.chunks) = 0

chunkDocument(content, filePath) ==
  LET st0 == [ chunks |-> <<>>, currentChunk |-> <<>>, currentLineStart |-> 1,
               currentLineCount |-> 0, chunkIndex |-> 0 ]
      paragraphs == split(content)
      st == chunkLoop(paragraphs, 1, st0, filePath)
  IN IF finalChunkKept(st)
     THEN Append(st.chunks,
                 createChunk(st.currentChunk, filePath, st.currentLineStart,
                             st.currentLineStart + st.currentLineCount - 1,
                             st.chunkIndex))
     ELSE st.chunks


\* ------------------------------------------------------------------- state
VARIABLES
  disk,         \* [Paths -> Docs \cup {Missing}]: the document each file holds
  edits,        \* number of file edits made so far
  db,           \* VectorDatabase.db is non-null (connected)
  table,        \* VectorDatabase.table is non-null (handle held)
  tableExists,  \* the store holds the table document_chunks
  rows,         \* [Paths -> Seq(row)]: the table's rows, per file_path, in insertion order
  model,        \* EmbeddingService.model is non-null (loaded)
  initializationPromise,
                \* EmbeddingService.initializationPromise: NoLoad (null) or the
                \* promise of the load that caller started
  loads,        \* the callers whose load is in flight (pipeline(...) pending)
  faults,       \* number of failures the environment has injected so far
  calls,        \* [Procs -> call frame]: the operation each caller is running
  prev          \* the last completed top-level operation, when it was a successful
                \* indexFile or a reindexAll

vars == <<disk, edits, db, table, tableExists, rows, model, initializationPromise,
          loads, faults, calls, prev>>

IdleCall ==
  [ op |-> "idle", pc |-> "idle",
    \* indexFile
    path |-> 0, content |-> Missing, create |-> FALSE, chunks |-> <<>>, ret |-> 0, err |-> "",
    \* chunkDocument
    input |-> Content(0, <<>>, <<>>),
    \* indexDirectory
    pat |-> 0, files |-> <<>>, idx |-> 0, indexed |-> 0, failed |-> <<>>,
    \* reindexAll
    patIdx |-> 0, totalIndexed |-> 0, allFailed |-> <<>>, totalFiles |-> 0,
    \* hybridSearch
    query |-> <<>>, limit |-> 0, hybrid |-> FALSE, candidates |-> <<>>, results |-> <<>>,
    embedCalled |-> FALSE,
    \* getStats
    stats |-> Nil,
    \* addChunks and embedBatch
    i |-> 0, embeddings |-> <<>>, returned |-> Nil,
    \* CallTool request: tool name, arguments, response, the stage that threw
    tool |-> "", args |-> Nil, response |-> Nil, thrownAt |-> "",
    \* EmbeddingService.initialize: the load awaited, that the call started it
    awaits |-> NoLoad, startedLoad |-> FALSE,
    \* history of the running operation
    stepsFailed |-> {}, invInitFail |-> FALSE, invLate |-> FALSE,
    opInitFail |-> FALSE, opLate |-> FALSE,
    attempts |-> <<>>, patLog |-> <<>>, clearDone |-> FALSE, insertsBeforeClear |-> FALSE,
    overlapped |-> FALSE, latest |-> FALSE, touchedOthers |-> FALSE,
    droppedRows |-> FALSE ]

Init ==
  /\ disk = [p \in Paths |-> "long"]
  /\ edits = 0
  /\ db = FALSE
  /\ table = FALSE
  /\ tableExists = FALSE
  /\ rows = [p \in Paths |-> <<>>]
  /\ model = FALSE
  /\ initializationPromise = NoLoad
  /\ loads = {}
  /\ faults = 0
  /\ calls = [c \in Procs |-> IdleCall]
  /\ prev = Nil

\* ------------------------------------------------------- embedding service
RECURSIVE WordsOf(_)
WordsOf(text) == IF text = <<>> THEN {} ELSE Head(text).words \cup WordsOf(Tail(text))

\* The vector the provider returns for a text: the set of words it is about
\* (the model, all-MiniLM-L6-v2, does not tell capitals from small letters).
embed(text) == {toLowerCase(w) : w \in WordsOf(text)}

batchOfShort(texts, i) == SubSeq(texts, i + 1, Min(i + batchSize - 1, Len(texts)))

\* texts.slice(i, i + batchSize), i counted from 0
batchOf(texts, i) == SubSeq(texts, i + 1, Min(i + batchSize, Len(texts)))

\* await Promise.all(batch.map(text => this.embed(text)))
embedAll(batch) == [j \in 1..Len(batch) |-> embed(batch[j])]

\* for (let i = 0; i < texts.length; i += batchSize) embeddings.push(...)
RECURSIVE embedBatchLoop(_, _, _)
embedBatchLoop(texts, i, embeddings) ==
  IF i >= Len(texts) THEN embeddings
  ELSE embedBatchLoop(texts, i + batchSize, embeddings \o embedAll(batchOf(texts, i)))

embedBatch(texts) == embedBatchLoop(texts, 0, <<>>)

\* --------------------------------------------------------- vector database
initializedTableAlways == TRUE

\* initialize(): the table handle after a successful initialize
initializedTable == IF db THEN table ELSE tableExists

\* chunks.map((chunk, i) => ({..., embedding: embeddings[i], ...})); beyond
\* the end of embeddings the value is undefined, written {0} (no vector)
withEmbeddings(chunks, embeddings) ==
  [i \in 1..Len(chunks) |->
        [ id |-> chunks[i].id, text |-> chunks[i].text,
          embedding |-> IF i <= Len(embeddings) THEN embeddings[i] ELSE {0},
          file_path |-> chunks[i].file_path, line_start |-> chunks[i].line_start,
          line_end |-> chunks[i].line_end, chunk_index |-> chunks[i].chunk_index,
          char_count |-> chunks[i].char_count, old |-> FALSE ]]

\* addChunks: the rows built from the chunks and their embeddings
chunksWithEmbeddings(chunks) ==
  withEmbeddings(chunks, embedBatch([i \in 1..Len(chunks) |-> chunks[i].text]))

\* table.add / createTable: the table after appending newRows
tableAdd(rws, newRows) ==
  IF newRows = <<>> THEN rws
  ELSE [rws EXCEPT ![newRows[1].file_path] = @ \o newRows]

tableDeleteNothing(rws, filePath) == rws

\* table.delete(`file_path = '...'`): the table without the rows of filePath
tableDelete(rws, filePath) == [rws EXCEPT ![filePath] = <<>>]

dropTableKeepsRows(rws) == rws

\* dropTable
dropTable(rws) == [p \in Paths |-> <<>>]

AllRows == Flatten([p \in Paths |-> rows[p]])

\* ------------------------------------------------ history of an operation
\* A load or connect is attempted (attempted) by frame cr.
noteAttempt(cr, attempted) ==
  [cr EXCEPT !.invLate = @ \/ (attempted /\ cr.invInitFail),
             !.opLate = @ \/ (attempted /\ cr.opInitFail)]

noteInitFail(cr) ==
  [noteAttempt(cr, TRUE) EXCEPT !.invInitFail = TRUE, !.opInitFail = TRUE]

\* --------------------------------------------------------------- indexFile
enterIndexFile(cr, p) ==
  [cr EXCEPT !.pc = "if_read", !.path = p, !.content = Missing, !.create = FALSE, !.chunks = <<>>,
             !.ret = 0, !.err = "", !.stepsFailed = {},
             !.invInitFail = FALSE, !.invLate = FALSE,
             !.opLate = @ \/ cr.opInitFail, !.overlapped = FALSE, !.latest = FALSE,
             !.touchedOthers = FALSE]

\* the catch block of indexFile: the call ends with an error
indexFileThrow(cr, step) ==
  [cr EXCEPT !.pc = "if_err", !.err = step, !.stepsFailed = @ \cup {step}]

\* chunking and the zero-chunk return that follow the delete
afterDelete(cr) ==
  LET chunks == chunkDocument(Doc(cr.content), cr.path)
  IN IF Len(chunks) = 0
     THEN [cr EXCEPT !.chunks = chunks, !.ret = 0, !.pc = "if_ok"]
     ELSE [cr EXCEPT !.chunks = chunks, !.pc = "if_embed"]

\* what a failed table.delete makes of the call: the error is logged, 0 returned
deleteCaught(cr) == afterDelete([cr EXCEPT !.stepsFailed = @ \cup {"delete"}])

\* the positions of an indexFile call that has not settled yet
Running == {"if_read", "if_delete", "if_embed", "if_insert", "if_inserting"}

\* history: the calls in d that overlap in time with the call of c on path p
noteOverlap(cs, c, p) ==
  LET others == {d \in Procs \ {c} : cs[d].pc \in Running /\ cs[d].path = p}
  IN [d \in Procs |->
        IF d \in others \/ (d = c /\ others # {})
        THEN [cs[d] EXCEPT !.overlapped = TRUE] ELSE cs[d]]

\* history: the call of c is the one that read path p last
noteRead(cs, c, p) ==
  [d \in Procs |->
     IF d = c THEN [cs[d] EXCEPT !.latest = TRUE]
     ELSE IF cs[d].path = p THEN [cs[d] EXCEPT !.latest = FALSE] ELSE cs[d]]

StartIndexFile(c, p) ==
  /\ calls[c].pc = "idle"
  /\ calls' = noteOverlap(
       [calls EXCEPT ![c] = enterIndexFile([IdleCall EXCEPT !.op = "indexFile"], p)], c, p)
  /\ UNCHANGED <<disk, edits, db, table, tableExists, rows, model, initializationPromise, loads, faults, prev>>

storeAfterReadDeleted(rws, filePath) == [rws EXCEPT ![filePath] = <<>>]

\* the table when fs.readFile has settled: indexFile has not called the store yet
storeAfterRead(rws, filePath) == rws

\* fs.readFile
IF_Read(c) ==
  /\ calls[c].pc = "if_read"
  /\ calls' =
       IF disk[calls[c].path] = Missing
       THEN [calls EXCEPT ![c] = indexFileThrow(@, "read")]
       ELSE noteRead([calls EXCEPT ![c] =
                        [@ EXCEPT !.content = disk[calls[c].path], !.pc = "if_delete"]],
                     c, calls[c].path)
  /\ rows' = storeAfterRead(rows, calls[c].path)
  /\ UNCHANGED <<disk, edits, db, table, tableExists, model, initializationPromise, loads,
                 faults, prev>>

\* history: the step from table contents before to after changed the rows
\* of a path other than the one the call is indexing
noteWrite(cr, before, after) ==
  [cr EXCEPT !.touchedOthers =
     @ \/ \E q \in Paths \ {cr.path} : before[q] # after[q]]

\* vectorDb.deleteFileChunks succeeds (or finds no table), then chunkDocument
IF_Delete(c) ==
  /\ calls[c].pc = "if_delete"
  /\ db' = TRUE
  /\ table' = initializedTable
  /\ rows' = IF initializedTable THEN tableDelete(rows, calls[c].path) ELSE rows
  /\ calls' = [calls EXCEPT ![c] = noteWrite(afterDelete(noteAttempt(@, ~db)), rows, rows')]
  /\ UNCHANGED <<disk, edits, tableExists, model, initializationPromise, loads, faults, prev>>

\* table.delete rejects: deleteFileChunks catches the error and returns 0
IF_DeleteFail(c) ==
  /\ calls[c].pc = "if_delete"
  /\ initializedTable
  /\ faults < MaxFaults
  /\ faults' = faults + 1
  /\ db' = TRUE
  /\ table' = initializedTable
  /\ calls' = [calls EXCEPT ![c] = deleteCaught(noteAttempt(@, ~db))]
  /\ UNCHANGED <<disk, edits, tableExists, rows, model, initializationPromise, loads, prev>>

\* addChunks: initialize, then embedBatch succeeds
IF_Embed(c) ==
  /\ calls[c].pc = "if_embed"
  /\ db' = TRUE
  /\ table' = initializedTable
  /\ model' = TRUE
  /\ initializationPromise' = IF model' = model THEN initializationPromise ELSE c
  /\ loads' = loads
  /\ calls' = [calls EXCEPT ![c] =
       [noteAttempt(noteAttempt(@, ~db), ~model) EXCEPT !.pc = "if_insert"]]
  /\ UNCHANGED <<disk, edits, tableExists, rows, faults, prev>>

\* the model is loaded but one embed call of the batch fails
IF_EmbedFail(c) ==
  /\ calls[c].pc = "if_embed"
  /\ faults < MaxFaults
  /\ faults' = faults + 1
  /\ db' = TRUE
  /\ table' = initializedTable
  /\ model' = TRUE
  /\ initializationPromise' = IF model' = model THEN initializationPromise ELSE c
  /\ loads' = loads
  /\ calls' = [calls EXCEPT ![c] =
       indexFileThrow(noteAttempt(noteAttempt(@, ~db), ~model), "embed")]
  /\ UNCHANGED <<disk, edits, tableExists, rows, prev>>

\* createTable (no handle yet) or table.add
noteInsert(cr) ==
  [cr EXCEPT !.insertsBeforeClear = @ \/ (cr.op = "reindexAll" /\ ~cr.clearDone)]

\* if (!this.table) createTable(...) else table.add(...): the request is issued
IF_InsertCall(c) ==
  /\ calls[c].pc = "if_insert"
  /\ calls' = [calls EXCEPT ![c] = [@ EXCEPT !.create = ~table, !.pc = "if_inserting"]]
  /\ UNCHANGED <<disk, edits, db, table, tableExists, rows, model, initializationPromise, loads, faults, prev>>

\* the store carries the request out and addChunks resumes
IF_Insert(c) ==
  /\ calls[c].pc = "if_inserting"
  /\ IF calls[c].create /\ tableExists
     THEN \* createTable on an existing table rejects
          /\ calls' = [calls EXCEPT ![c] = indexFileThrow(@, "insert")]
          /\ UNCHANGED <<table, tableExists, rows>>
     ELSE /\ rows' = tableAdd(rows, chunksWithEmbeddings(calls[c].chunks))
          /\ table' = TRUE
          /\ tableExists' = TRUE
          /\ calls' = [calls EXCEPT ![c] =
               [noteWrite(noteInsert(@), rows, rows')
                  EXCEPT !.ret = Len(calls[c].chunks), !.pc = "if_ok"]]
  /\ UNCHANGED <<disk, edits, db, model, initializationPromise, loads, faults, prev>>

\* createTable / table.add rejects
IF_InsertFail(c) ==
  /\ calls[c].pc = "if_inserting"
  /\ faults < MaxFaults
  /\ faults' = faults + 1
  /\ calls' = [calls EXCEPT ![c] = indexFileThrow(@, "insert")]
  /\ UNCHANGED <<disk, edits, db, table, tableExists, rows, model, initializationPromise, loads, prev>>

\* where a rejected vectorDb.initialize() takes the call: the enclosing catch
initializeThrow(cr) ==
  CASE cr.pc \in {"if_delete", "if_embed"} -> indexFileThrow(cr, "connect")
    [] cr.pc = "ra_clear" -> [cr EXCEPT !.pc = "ra_err", !.err = "connect"]
    [] cr.pc = "gs_stats" -> [cr EXCEPT !.pc = "gs_err", !.err = "connect"]
    [] OTHER -> [cr EXCEPT !.pc = "hs_err", !.err = "connect"]

\* lancedb.connect (or tableNames / openTable) rejects inside initialize()
ConnectFail(c) ==
  /\ calls[c].pc \in {"if_delete", "if_embed", "ra_clear", "hs_search", "gs_stats"}
  /\ ~db
  /\ faults < MaxFaults
  /\ faults' = faults + 1
  /\ calls' = [calls EXCEPT ![c] = initializeThrow(noteInitFail(@))]
  /\ UNCHANGED <<disk, edits, db, table, tableExists, rows, model, initializationPromise, loads, prev>>

loadRetry(cr) == cr

\* where a rejected embeddingService.initialize() takes the call
loadThrow(cr) ==
  IF cr.pc = "if_embed" THEN indexFileThrow(cr, "load")
  ELSE [cr EXCEPT !.pc = "hs_err", !.err = "load", !.embedCalled = TRUE]

\* pipeline(...) rejects inside EmbeddingService.initialize(): the promise is reset
LoadFail(c) ==
  /\ \/ calls[c].pc = "if_embed"
     \/ calls[c].pc = "hs_search" /\ initializedTable
  /\ ~model
  /\ faults < MaxFaults
  /\ faults' = faults + 1
  /\ db' = TRUE
  /\ table' = initializedTable
  /\ calls' = [calls EXCEPT ![c] = loadThrow(noteInitFail(noteAttempt(@, ~db)))]
  /\ UNCHANGED <<disk, edits, tableExists, rows, model, initializationPromise, loads, prev>>

\* the caller of a top-level indexFile takes its result
FinishIndexFile(c) ==
  /\ calls[c].op = "indexFile"
  /\ calls[c].pc \in {"if_ok", "if_err"}
  /\ prev' = IF calls[c].pc = "if_ok"
             THEN [ path |-> calls[c].path, content |-> calls[c].content,
                    ret |-> calls[c].ret, n |-> Len(rows[calls[c].path]),
                    cleared |-> FALSE ]
             ELSE Nil
  /\ calls' = [calls EXCEPT ![c] = IdleCall]
  /\ UNCHANGED <<disk, edits, db, table, tableExists, rows, model, initializationPromise, loads, faults>>

\* ---------------------------------------------------------- indexDirectory
\* The default '**/*.md' of indexDirectory and the indexPaths of reindexAll.
AnyMarkdown == "**/*.md"
indexPaths == << "memory/**/*.md", "diaries/**/*.md", ".lane/plans/**/*.md", "*.md" >>

\* The workspace: file 1 lives under memory/, file 2 at the root.
Matches(pattern, p) ==
  \/ pattern = AnyMarkdown
  \/ pattern = "memory/**/*.md" /\ p = 1
  \/ pattern = "*.md" /\ p = 2

\* glob.sync(pattern, {cwd, absolute, nodir, ignore})
globSync(pattern) == SortedSeq({p \in Paths : disk[p] # Missing /\ Matches(pattern, p)})

enterIndexDirectory(cr, pattern) ==
  [cr EXCEPT !.pc = "id_glob", !.pat = pattern, !.files = <<>>, !.idx = 0,
             !.indexed = 0, !.failed = <<>>, !.attempts = <<>>]

collectFileAbort(cr) ==
  IF cr.pc = "if_ok"
  THEN [cr EXCEPT !.indexed = @ + cr.ret, !.idx = @ + 1, !.pc = "id_loop"]
  ELSE [cr EXCEPT !.failed = Append(@, cr.files[cr.idx]), !.idx = @ + 1, !.pc = "id_ok"]

\* the body of the for loop after indexFile settled: count the chunks or
\* record the file as failed, then go on with the next file
collectFile(cr) ==
  IF cr.pc = "if_ok"
  THEN [cr EXCEPT !.indexed = @ + cr.ret, !.idx = @ + 1, !.pc = "id_loop"]
  ELSE [cr EXCEPT !.failed = Append(@, cr.files[cr.idx]), !.idx = @ + 1, !.pc = "id_loop"]

\* history: how the indexFile of one file ended
logAttempt(cr, old) ==
  [cr EXCEPT !.attempts = Append(old.attempts,
                [file |-> old.path, ok |-> old.pc = "if_ok", count |-> old.ret]),
             !.invInitFail = FALSE]

StartIndexDirectory(c, pattern) ==
  /\ calls[c].pc = "idle"
  /\ calls' = [calls EXCEPT ![c] =
       enterIndexDirectory([IdleCall EXCEPT !.op = "indexDirectory"], pattern)]
  /\ UNCHANGED <<disk, edits, db, table, tableExists, rows, model, initializationPromise, loads, faults, prev>>

ID_Glob(c) ==
  /\ calls[c].pc = "id_glob"
  /\ calls' = [calls EXCEPT ![c] =
       [@ EXCEPT !.files = globSync(calls[c].pat), !.idx = 1, !.pc = "id_loop"]]
  /\ UNCHANGED <<disk, edits, db, table, tableExists, rows, model, initializationPromise, loads, faults, prev>>

\* glob throws: indexDirectory rethrows "Failed to index directory"
ID_GlobFail(c) ==
  /\ calls[c].pc = "id_glob"
  /\ faults < MaxFaults
  /\ faults' = faults + 1
  /\ calls' = [calls EXCEPT ![c] = [@ EXCEPT !.pc = "id_err", !.err = "glob"]]
  /\ UNCHANGED <<disk, edits, db, table, tableExists, rows, model, initializationPromise, loads, prev>>

\* for (const file of files): the next file, or the return after the last
nextFile(cr) ==
  IF cr.idx <= Len(cr.files)
  THEN enterIndexFile(cr, cr.files[cr.idx])
  ELSE [cr EXCEPT !.pc = "id_ok"]

ID_Next(c) ==
  /\ calls[c].pc = "id_loop"
  /\ calls' = [calls EXCEPT ![c] = nextFile(@)]
  /\ UNCHANGED <<disk, edits, db, table, tableExists, rows, model, initializationPromise, loads, faults, prev>>

ID_Collect(c) ==
  /\ calls[c].op \in {"indexDirectory", "reindexAll"}
  /\ calls[c].pc \in {"if_ok", "if_err"}
  /\ calls' = [calls EXCEPT ![c] = logAttempt(collectFile(@), calls[c])]
  /\ UNCHANGED <<disk, edits, db, table, tableExists, rows, model, initializationPromise, loads, faults, prev>>

FinishIndexDirectory(c) ==
  /\ calls[c].op = "indexDirectory"
  /\ calls[c].pc \in {"id_ok", "id_err"}
  /\ calls' = [calls EXCEPT ![c] = IdleCall]
  /\ prev' = Nil
  /\ UNCHANGED <<disk, edits, db, table, tableExists, rows, model, initializationPromise, loads, faults>>

\* -------------------------------------------------------------- reindexAll
\* history: the rows that are in the store when reindexAll starts
markOld(rws, flag) ==
  [p \in Paths |-> [i \in 1..Len(rws[p]) |-> [rws[p][i] EXCEPT !.old = flag]]]

StartReindexAll(c) ==
  /\ calls[c].pc = "idle"
  /\ calls' = [calls EXCEPT ![c] = [IdleCall EXCEPT !.op = "reindexAll", !.pc = "ra_clear"]]
  /\ rows' = markOld(rows, TRUE)
  /\ UNCHANGED <<disk, edits, db, table, tableExists, model, initializationPromise, loads, faults, prev>>

\* vectorDb.clear(): drop the table when there is one
RA_Clear(c) ==
  /\ calls[c].pc = "ra_clear"
  /\ db' = TRUE
  /\ table' = FALSE
  /\ tableExists' = IF initializedTable THEN FALSE ELSE tableExists
  /\ rows' = IF initializedTable THEN dropTable(rows) ELSE rows
  /\ calls' = [calls EXCEPT ![c] =
       [noteAttempt(@, ~db) EXCEPT !.clearDone = TRUE, !.patIdx = 1, !.pc = "ra_loop",
                                   !.droppedRows = (initializedTable /\ AllRows # <<>>)]]
  /\ UNCHANGED <<disk, edits, model, initializationPromise, loads, faults, prev>>

\* dropTable rejects: clear throws and reindexAll fails with "Reindex failed"
RA_ClearFail(c) ==
  /\ calls[c].pc = "ra_clear"
  /\ initializedTable
  /\ faults < MaxFaults
  /\ faults' = faults + 1
  /\ db' = TRUE
  /\ table' = initializedTable
  /\ calls' = [calls EXCEPT ![c] = [noteAttempt(@, ~db) EXCEPT !.pc = "ra_err", !.err = "drop"]]
  /\ UNCHANGED <<disk, edits, tableExists, rows, model, initializationPromise, loads, prev>>

\* for (const pattern of indexPaths): the next pattern, or the return
nextPattern(cr) ==
  IF cr.patIdx <= Len(indexPaths)
  THEN enterIndexDirectory(cr, indexPaths[cr.patIdx])
  ELSE [cr EXCEPT !.pc = "ra_ok"]

RA_Next(c) ==
  /\ calls[c].pc = "ra_loop"
  /\ calls' = [calls EXCEPT ![c] = nextPattern(@)]
  /\ UNCHANGED <<disk, edits, db, table, tableExists, rows, model, initializationPromise, loads, faults, prev>>

collectPatternAbort(cr) ==
  IF cr.pc = "id_ok"
  THEN [cr EXCEPT !.totalIndexed = @ + cr.indexed,
                  !.allFailed = @ \o cr.failed,
                  !.totalFiles = @ + CeilDiv(cr.indexed, ChunksPerFile),
                  !.patIdx = @ + 1, !.pc = "ra_loop"]
  ELSE [cr EXCEPT !.patIdx = @ + 1, !.pc = "ra_ok"]

\* the loop body after indexDirectory settled: aggregate, or log the failure
collectPattern(cr) ==
  IF cr.pc = "id_ok"
  THEN [cr EXCEPT !.totalIndexed = @ + cr.indexed,
                  !.allFailed = @ \o cr.failed,
                  !.totalFiles = @ + CeilDiv(cr.indexed, ChunksPerFile),
                  !.patIdx = @ + 1, !.pc = "ra_loop"]
  ELSE [cr EXCEPT !.patIdx = @ + 1, !.pc = "ra_loop"]

\* history: how the indexDirectory of one pattern ended
logPattern(cr, old) ==
  [cr EXCEPT !.patLog = Append(old.patLog,
     [pattern |-> old.pat, ok |-> old.pc = "id_ok", indexed |-> old.indexed,
      failed |-> old.failed])]

RA_Collect(c) ==
  /\ calls[c].op = "reindexAll"
  /\ calls[c].pc \in {"id_ok", "id_err"}
  /\ calls' = [calls EXCEPT ![c] = logPattern(collectPattern(@), calls[c])]
  /\ UNCHANGED <<disk, edits, db, table, tableExists, rows, model, initializationPromise, loads, faults, prev>>

FinishReindexAll(c) ==
  /\ calls[c].op = "reindexAll"
  /\ calls[c].pc \in {"ra_ok", "ra_err"}
  /\ calls' = [calls EXCEPT ![c] = IdleCall]
  /\ rows' = markOld(rows, FALSE)
  /\ prev' = [ path |-> 0, content |-> Missing, ret |-> 0, n |-> 0,
               cleared |-> calls[c].droppedRows ]
  /\ UNCHANGED <<disk, edits, db, table, tableExists, model, initializationPromise, loads, faults>>

\* ------------------------------------------------------------ hybridSearch
\* A query is a sequence of words separated by white space.
Queries == { <<1, 2>>, <<3, 11>>, <<11, 1>> }

\* the vector of the query text
embedQuery(query) == {toLowerCase(w) : w \in Range(query)}

\* the store's _distance between two vectors, in thousandths: 0.4 for every
\* word that only one of the two texts is about
distance(u, v) == 400 * Cardinality((u \ v) \cup (v \ u))

\* Stable insertion of x into s, a sequence of records sorted by ascending
\* key: x goes behind every element whose key is not greater than its own.
RECURSIVE InsertSorted(_, _)
InsertSorted(s, x) ==
  IF s = <<>> THEN <<x>>
  ELSE IF x.key < s[Len(s)].key
       THEN Append(InsertSorted(SubSeq(s, 1, Len(s) - 1), x), s[Len(s)])
       ELSE Append(s, x)

RECURSIVE StableSortKeyed(_)
StableSortKeyed(s) ==
  IF s = <<>> THEN <<>>
  ELSE InsertSorted(StableSortKeyed(SubSeq(s, 1, Len(s) - 1)), s[Len(s)])

StableSortTiesReversed(s, keys) ==
  LET n == Len(s)
      sorted == StableSortKeyed([i \in 1..n |-> [key |-> keys[n + 1 - i], val |-> s[n + 1 - i]]])
  IN [i \in 1..n |-> sorted[i].val]

\* The stable sort of s by ascending keys[i], as Array.prototype.sort does it.
StableSort(s, keys) ==
  LET sorted == StableSortKeyed([i \in 1..Len(s) |-> [key |-> keys[i], val |-> s[i]]])
  IN [i \in 1..Len(s) |-> sorted[i].val]

sliceAll(s, n) == s

\* Array.prototype.slice(0, n)
slice(s, n) == SubSeq(s, 1, Min(n, Len(s)))

\* the store's .limit(k): at most the k nearest rows
limitRows(s, k) == SubSeq(s, 1, Min(k, Len(s)))

\* results.map(...): the SearchResult made of a row the store returned with
\* _distance d
toResult(row, d) ==
  [ chunk |-> [id |-> row.id, text |-> row.text],
    score |-> Unit - d,
    distance |-> d ]

\* table.vectorSearch(queryEmbedding).limit(limit).toArray(), mapped to results
vectorSearch(tableRows, queryEmbedding, limit) ==
  LET scored == [i \in 1..Len(tableRows) |->
                  toResult(tableRows[i],
                           distance(queryEmbedding, tableRows[i].embedding))]
  IN limitRows(StableSort(scored, [i \in 1..Len(scored) |-> scored[i].distance]), limit)

keywordsOfFromThree(query) ==
  SelectSeq([i \in 1..Len(query) |-> toLowerCase(query[i])],
            LAMBDA word : WordLen(word) >= MinKeywordLen)

\* query.toLowerCase().split(/\s+/).filter(word => word.length > 3)
keywordsOf(query) ==
  SelectSeq([i \in 1..Len(query) |-> toLowerCase(query[i])],
            LAMBDA word : WordLen(word) > MinKeywordLen)

includesWord(text, keyword) == \E w \in WordsOf(text) : keyword = toLowerCase(w)

\* result.chunk.text.toLowerCase().includes(keyword)
includes(text, keyword) ==
  \E w \in WordsOf(text) : keyword \in Substrings(toLowerCase(w))

keywordScoreOnce(text, keywords) ==
  IF \E i \in 1..Len(keywords) : includes(text, keywords[i]) THEN KeywordBoost ELSE 0

\* the loop over the keywords: 0.2 for every keyword the text includes
keywordScore(text, keywords) ==
  KeywordBoost * Cardinality({i \in 1..Len(keywords) : includes(text, keywords[i])})

boostReplacesScore(result, keywords) ==
  [result EXCEPT !.score = Min(keywordScore(result.chunk.text, keywords), ScoreCap)]

\* the result with its boosted score: Math.min(result.score + keywordScore, 1.0)
boost(result, keywords) ==
  [result EXCEPT !.score = Min(result.score + keywordScore(result.chunk.text, keywords),
                               ScoreCap)]

rerankAlways(semanticResults, query, limit, enableHybrid) ==
  LET keywords == keywordsOf(query)
      boostedResults == [i \in 1..Len(semanticResults) |->
                           boost(semanticResults[i], keywords)]
      sorted == StableSort(boostedResults,
                           [i \in 1..Len(boostedResults) |-> 0 - boostedResults[i].score])
  IN slice(sorted, limit)

\* the part of hybridSearch that follows vectorDb.search
rerank(semanticResults, query, limit, enableHybrid) ==
  IF ~enableHybrid THEN slice(semanticResults, limit)
  ELSE LET keywords == keywordsOf(query)
           boostedResults == [i \in 1..Len(semanticResults) |->
                                boost(semanticResults[i], keywords)]
           \* boostedResults.sort((a, b) => b.score - a.score)
           sorted == StableSort(boostedResults,
                                [i \in 1..Len(boostedResults) |-> 0 - boostedResults[i].score])
       IN slice(sorted, limit)

StartSearch(c, query, limit, enableHybrid) ==
  /\ calls[c].pc = "idle"
  /\ calls' = [calls EXCEPT ![c] =
       [IdleCall EXCEPT !.op = "search", !.pc = "hs_search", !.query = query,
                        !.limit = limit, !.hybrid = enableHybrid]]
  /\ UNCHANGED <<disk, edits, db, table, tableExists, rows, model, initializationPromise, loads, faults, prev>>

embedsQueryAlways(hasTable) == TRUE

\* VectorDatabase.search: whether the query is embedded, given the table
\* handle that initialize() left (without a handle search returns [] at once)
embedsQuery(hasTable) == hasTable

\* vectorDb.search(query, limit * 2) returns
HS_Search(c) ==
  /\ calls[c].pc = "hs_search"
  /\ db' = TRUE
  /\ table' = initializedTable
  /\ model' = (model \/ embedsQuery(initializedTable))
  /\ initializationPromise' = IF model' = model THEN initializationPromise ELSE c
  /\ loads' = loads
  /\ LET semanticResults ==
           IF initializedTable
           THEN vectorSearch(AllRows,
                             embedQuery(calls[c].query), calls[c].limit * OverFetch)
           ELSE <<>>
     IN calls' = [calls EXCEPT ![c] =
          [noteAttempt(noteAttempt(@, ~db), embedsQuery(initializedTable) /\ ~model)
             EXCEPT !.candidates = semanticResults,
                    !.embedCalled = embedsQuery(initializedTable),
                    !.pc = "hs_rerank"]]
  /\ UNCHANGED <<disk, edits, tableExists, rows, faults, prev>>

\* the rest of hybridSearch: slice, or boost, sort and slice
HS_Rerank(c) ==
  /\ calls[c].pc = "hs_rerank"
  /\ calls' = [calls EXCEPT ![c] =
       [@ EXCEPT !.results = rerank(calls[c].candidates, calls[c].query, calls[c].limit,
                                    calls[c].hybrid),
                 !.pc = "hs_ok"]]
  /\ UNCHANGED <<disk, edits, db, table, tableExists, rows, model, initializationPromise, loads, faults, prev>>

\* the embed call of the query fails: vectorDb.search throws "Search failed"
HS_EmbedFail(c) ==
  /\ calls[c].pc = "hs_search"
  /\ initializedTable
  /\ faults < MaxFaults
  /\ faults' = faults + 1
  /\ db' = TRUE
  /\ table' = initializedTable
  /\ model' = TRUE
  /\ initializationPromise' = IF model' = model THEN initializationPromise ELSE c
  /\ loads' = loads
  /\ calls' = [calls EXCEPT ![c] =
       [noteAttempt(noteAttempt(@, ~db), ~model)
          EXCEPT !.pc = "hs_err", !.err = "embed", !.embedCalled = TRUE]]
  /\ UNCHANGED <<disk, edits, tableExists, rows, prev>>

FinishSearch(c) ==
  /\ calls[c].op = "search"
  /\ calls[c].pc \in {"hs_ok", "hs_err"}
  /\ calls' = [calls EXCEPT ![c] = IdleCall]
  /\ prev' = Nil
  /\ UNCHANGED <<disk, edits, db, table, tableExists, rows, model, initializationPromise, loads, faults>>

\* ---------------------------------------------------------------- getStats
\* the size of the database directory in hundredths of a megabyte: one for
\* the files the store keeps of its own and one for every row
directorySize == 1 + Len(AllRows)

\* the statistics of a store that has a table, the directory measured or not
tableStats(measured) ==
  LET uniqueFiles == {p \in Paths : rows[p] # <<>>}
  IN [ total_chunks |-> Len(AllRows),
       total_files |-> Cardinality(uniqueFiles),
       file_list |-> SortedSeq(uniqueFiles),
       db_size_mb |-> IF measured THEN directorySize ELSE 0 ]

getStatsMeasuresAnyway(hasTable, measured) == tableStats(measured)

\* what getStats returns, given the table handle that initialize() left
getStatsReturn(hasTable, measured) ==
  IF ~hasTable
  THEN [ total_chunks |-> 0, total_files |-> 0, file_list |-> <<>>, db_size_mb |-> 0 ]
  ELSE tableStats(measured)

StartGetStats(c) ==
  /\ calls[c].pc = "idle"
  /\ calls' = [calls EXCEPT ![c] = [IdleCall EXCEPT !.op = "getStats", !.pc = "gs_stats"]]
  /\ UNCHANGED <<disk, edits, db, table, tableExists, rows, model, initializationPromise, loads, faults, prev>>

\* getStats returns
GS_Stats(c) ==
  /\ calls[c].pc = "gs_stats"
  /\ db' = TRUE
  /\ table' = initializedTable
  /\ calls' = [calls EXCEPT ![c] =
       [noteAttempt(@, ~db) EXCEPT !.stats = getStatsReturn(initializedTable, TRUE),
                                   !.pc = "gs_ok"]]
  /\ UNCHANGED <<disk, edits, tableExists, rows, model, initializationPromise, loads, faults, prev>>

\* reading the database directory fails: the inner catch reports size 0
GS_SizeFail(c) ==
  /\ calls[c].pc = "gs_stats"
  /\ initializedTable
  /\ faults < MaxFaults
  /\ faults' = faults + 1
  /\ db' = TRUE
  /\ table' = initializedTable
  /\ calls' = [calls EXCEPT ![c] =
       [noteAttempt(@, ~db) EXCEPT !.stats = getStatsReturn(initializedTable, FALSE),
                                   !.pc = "gs_ok"]]
  /\ UNCHANGED <<disk, edits, tableExists, rows, model, initializationPromise, loads, prev>>

\* countRows or query().toArray() rejects: "Failed to get stats"
GS_QueryFail(c) ==
  /\ calls[c].pc = "gs_stats"
  /\ initializedTable
  /\ faults < MaxFaults
  /\ faults' = faults + 1
  /\ db' = TRUE
  /\ table' = initializedTable
  /\ calls' = [calls EXCEPT ![c] = [noteAttempt(@, ~db) EXCEPT !.pc = "gs_err", !.err = "stats"]]
  /\ UNCHANGED <<disk, edits, tableExists, rows, model, initializationPromise, loads, prev>>

FinishGetStats(c) ==
  /\ calls[c].op = "getStats"
  /\ calls[c].pc \in {"gs_ok", "gs_err"}
  /\ calls' = [calls EXCEPT ![c] = IdleCall]
  /\ UNCHANGED <<disk, edits, db, table, tableExists, rows, model, initializationPromise, loads, faults, prev>>

\* ------------------------------------------------------------- environment
\* The file at p is rewritten, created or removed.
EditFile(p, d) ==
  /\ edits < MaxEdits
  /\ d # disk[p]
  /\ edits' = edits + 1
  /\ disk' = [disk EXCEPT ![p] = d]
  /\ prev' = IF prev # Nil /\ prev.path = p THEN Nil ELSE prev
  /\ UNCHANGED <<db, table, tableExists, rows, model, initializationPromise, loads, faults, calls>>

\* cleanup() on shutdown, then a new process: the singletons start empty
Restart ==
  /\ \A c \in Procs : calls[c].pc = "idle"
  /\ db \/ model
  /\ db' = FALSE
  /\ table' = FALSE
  /\ model' = FALSE
  /\ initializationPromise' = NoLoad
  /\ loads' = loads
  /\ UNCHANGED <<disk, edits, tableExists, rows, faults, calls, prev>>

AllIdle == \A c \in Procs : calls[c].pc = "idle"

Next ==
  \/ \E p \in Paths : AllIdle /\ StartIndexFile(1, p)
  \/ IF_Read(1)
  \/ IF_Delete(1)
  \/ IF_DeleteFail(1)
  \/ IF_Embed(1)
  \/ IF_EmbedFail(1)
  \/ IF_InsertCall(1)
  \/ IF_Insert(1)
  \/ IF_InsertFail(1)
  \/ ConnectFail(1)
  \/ LoadFail(1)
  \/ FinishIndexFile(1)
  \/ \E pattern \in {AnyMarkdown} \cup Range(indexPaths) :
       AllIdle /\ StartIndexDirectory(1, pattern)
  \/ ID_Glob(1)
  \/ ID_GlobFail(1)
  \/ ID_Next(1)
  \/ ID_Collect(1)
  \/ FinishIndexDirectory(1)
  \/ AllIdle /\ StartReindexAll(1)
  \/ RA_Clear(1)
  \/ RA_ClearFail(1)
  \/ RA_Next(1)
  \/ RA_Collect(1)
  \/ FinishReindexAll(1)
  \/ \E query \in Queries, limit \in 1..MaxLimit, enableHybrid \in BOOLEAN :
       AllIdle /\ StartSearch(1, query, limit, enableHybrid)
  \/ HS_Search(1)
  \/ HS_Rerank(1)
  \/ HS_EmbedFail(1)
  \/ FinishSearch(1)
  \/ AllIdle /\ StartGetStats(1)
  \/ GS_Stats(1)
  \/ GS_SizeFail(1)
  \/ GS_QueryFail(1)
  \/ FinishGetStats(1)
  \/ \E p \in Paths, d \in Docs \cup {Missing} : AllIdle /\ EditFile(p, d)
  \/ Restart

Spec == Init /\ [][Next]_vars

\* Two callers issue indexFile calls that overlap in time (the calls interleave
\* at their awaits); the files may be edited meanwhile; nothing fails by itself.
NextConc ==
  \/ \E c \in Procs, p \in Paths : StartIndexFile(c, p)
  \/ \E c \in Procs : IF_Read(c)
  \/ \E c \in Procs : IF_Delete(c)
  \/ \E c \in Procs : IF_Embed(c)
  \/ \E c \in Procs : IF_InsertCall(c)
  \/ \E c \in Procs : IF_Insert(c)
  \/ \E c \in Procs : FinishIndexFile(c)
  \/ \E p \in Paths, d \in Docs \cup {Missing} : EditFile(p, d)

SpecConc == Init /\ [][NextConc]_vars


\* The ranking of hybridSearch on whatever the store answers.  The table was
\* filled by an earlier run of the server and its content is left open: the
\* answer to vectorSearch(...).limit(k) is any list of at most k rows, nearest
\* first, each with the _distance the store computed for it.
Texts == { <<Para(60, 1, {11, 2})>>, <<Para(40, 1, {3, 4})>>, <<Para(30, 1, {3})>> }
Distances == {100, 300, 1200}

StoreAnswers(k) ==
  UNION { { a \in [1..n -> Texts \X Distances] :
              \A i \in 1..(n - 1) : a[i][2] <= a[i + 1][2] } : n \in 0..k }

InitRank ==
  /\ disk = [p \in Paths |-> "long"]
  /\ edits = 0
  /\ db = FALSE
  /\ table = FALSE
  /\ tableExists = TRUE
  /\ rows = [p \in Paths |-> <<>>]
  /\ model = FALSE
  /\ initializationPromise = NoLoad
  /\ loads = {}
  /\ faults = 0
  /\ calls = [c \in Procs |-> IdleCall]
  /\ prev = Nil

\* vectorDb.search(query, limit * 2) returns the results made of the answer
HS_SearchAnswer(c, answer) ==
  /\ calls[c].pc = "hs_search"
  /\ initializedTable
  /\ db' = TRUE
  /\ table' = initializedTable
  /\ model' = TRUE
  /\ initializationPromise' = IF model' = model THEN initializationPromise ELSE c
  /\ loads' = loads
  /\ calls' = [calls EXCEPT ![c] =
       [noteAttempt(noteAttempt(@, ~db), ~model)
          EXCEPT !.candidates = [i \in 1..Len(answer) |->
                                   toResult([id |-> <<1, i - 1>>, text |-> answer[i][1]],
                                            answer[i][2])],
                 !.embedCalled = TRUE,
                 !.pc = "hs_rerank"]]
  /\ UNCHANGED <<disk, edits, tableExists, rows, faults, prev>>

NextRank ==
  \/ \E query \in Queries, limit \in 1..MaxLimit, enableHybrid \in BOOLEAN :
       StartSearch(1, query, limit, enableHybrid)
  \/ /\ calls[1].pc = "hs_search"
     /\ \E answer \in StoreAnswers(calls[1].limit * OverFetch) : HS_SearchAnswer(1, answer)
  \/ HS_Rerank(1)
  \/ FinishSearch(1)

SpecRank == InitRank /\ [][NextRank]_vars

\* ------------------------------------------- EmbeddingService.initialize
\* Callers of initialize, embed and embedBatch that overlap in time.  A load
\* is named by the caller whose initialize() started it; a caller awaits one
\* load at a time.
ServiceOps == {"initialize", "embed", "embedBatch"}

inFlightIgnored(promise) == FALSE

\* if (this.initializationPromise)
inFlight(promise) == promise # NoLoad

keepPromise(promise) == promise

\* catch of the load: this.initializationPromise = null
resetPromise(promise) == NoLoad

\* where a call goes on once its await this.initialize() has returned
afterInitialize(cr) ==
  CASE cr.op = "initialize" -> [cr EXCEPT !.pc = "es_ok", !.awaits = NoLoad]
    [] cr.op = "embed" ->
         \* if (!this.model) throw, else this.model(text, ...) is called
         [cr EXCEPT !.pc = "es_model", !.awaits = NoLoad]
    [] OTHER -> [cr EXCEPT !.pc = "eb_batch", !.awaits = NoLoad]

\* the load awaited was rejected: the caller receives "Failed to load"
loadRejected(cr) == [cr EXCEPT !.pc = "es_err", !.err = "load", !.awaits = NoLoad]

StartService(c, op) ==
  /\ calls[c].pc = "idle"
  /\ calls' = [calls EXCEPT ![c] = [IdleCall EXCEPT !.op = op, !.pc = "es_init"]]
  /\ UNCHANGED <<disk, edits, db, table, tableExists, rows, model, initializationPromise,
                 loads, faults, prev>>

\* initialize() up to its first await: return when the model is there, return
\* the promise of the load in flight, or start a load and return its promise
ES_Initialize(c) ==
  /\ calls[c].pc = "es_init"
  /\ IF model
     THEN /\ calls' = [calls EXCEPT ![c] = afterInitialize(@)]
          /\ UNCHANGED <<initializationPromise, loads>>
     ELSE IF inFlight(initializationPromise)
     THEN /\ calls' = [calls EXCEPT ![c] =
               IF initializationPromise \in loads
               THEN [@ EXCEPT !.pc = "es_wait", !.awaits = initializationPromise]
               ELSE \* the promise is settled, and rejected since there is no model
                    loadRejected(@)]
          /\ UNCHANGED <<initializationPromise, loads>>
     ELSE /\ initializationPromise' = c
          /\ loads' = loads \cup {c}
          /\ calls' = [calls EXCEPT ![c] =
               [@ EXCEPT !.pc = "es_wait", !.awaits = c, !.startedLoad = TRUE]]
  /\ UNCHANGED <<disk, edits, db, table, tableExists, rows, model, faults, prev>>

\* pipeline(...) resolves: the model is set, every caller awaiting the load resumes
LoadOk(l) ==
  /\ l \in loads
  /\ model' = TRUE
  /\ loads' = loads \ {l}
  /\ calls' = [c \in Procs |->
                 IF calls[c].pc = "es_wait" /\ calls[c].awaits = l
                 THEN afterInitialize(calls[c]) ELSE calls[c]]
  /\ UNCHANGED <<disk, edits, db, table, tableExists, rows, initializationPromise,
                 faults, prev>>

\* pipeline(...) rejects: the promise is reset, every caller awaiting the load fails
LoadReject(l) ==
  /\ l \in loads
  /\ faults < MaxFaults
  /\ faults' = faults + 1
  /\ initializationPromise' = resetPromise(initializationPromise)
  /\ loads' = loads \ {l}
  /\ calls' = [c \in Procs |->
                 IF calls[c].pc = "es_wait" /\ calls[c].awaits = l
                 THEN loadRejected(calls[c]) ELSE calls[c]]
  /\ UNCHANGED <<disk, edits, db, table, tableExists, rows, model, prev>>

\* embedBatch: batch.map(text => this.embed(text)); every embed of the batch
\* runs initialize() up to its first await, one after the other
EB_Embeds(c) ==
  /\ calls[c].pc = "eb_batch"
  /\ model
  /\ calls' = [calls EXCEPT ![c] = [@ EXCEPT !.pc = "es_model"]]
  /\ UNCHANGED <<disk, edits, db, table, tableExists, rows, model, initializationPromise,
                 loads, faults, prev>>

\* this.model(text, ...) resolves
ES_Model(c) ==
  /\ calls[c].pc = "es_model"
  /\ calls' = [calls EXCEPT ![c] = [@ EXCEPT !.pc = "es_ok"]]
  /\ UNCHANGED <<disk, edits, db, table, tableExists, rows, model, initializationPromise,
                 loads, faults, prev>>

\* this.model(text, ...) rejects: "Embedding generation failed"
ES_ModelFail(c) ==
  /\ calls[c].pc = "es_model"
  /\ faults < MaxFaults
  /\ faults' = faults + 1
  /\ calls' = [calls EXCEPT ![c] = [@ EXCEPT !.pc = "es_err", !.err = "embed"]]
  /\ UNCHANGED <<disk, edits, db, table, tableExists, rows, model, initializationPromise,
                 loads, prev>>

\* the caller takes the outcome
ES_Done(c) ==
  /\ calls[c].pc \in {"es_ok", "es_err"}
  /\ calls' = [calls EXCEPT ![c] = IdleCall]
  /\ UNCHANGED <<disk, edits, db, table, tableExists, rows, model, initializationPromise,
                 loads, faults, prev>>

NextLoad ==
  \/ \E c \in Procs, op \in ServiceOps : StartService(c, op)
  \/ \E c \in Procs : ES_Initialize(c)
  \/ \E l \in Procs : LoadOk(l)
  \/ \E l \in Procs : LoadReject(l)
  \/ \E c \in Procs : EB_Embeds(c)
  \/ \E c \in Procs : ES_Model(c)
  \/ \E c \in Procs : ES_ModelFail(c)
  \/ \E c \in Procs : ES_Done(c)

SpecLoad == Init /\ [][NextLoad]_vars

\* ------------------------------------------- VectorDatabase.initialize
\* Callers of initialize() on the one VectorDatabase of the process that
\* overlap in time; the calls interleave at the awaits of initialize().  The
\* store holds the table or not from the start.
InitOpen ==
  /\ disk = [p \in Paths |-> "long"]
  /\ edits = 0
  /\ db = FALSE
  /\ table = FALSE
  /\ tableExists \in BOOLEAN
  /\ rows = [p \in Paths |-> <<>>]
  /\ model = FALSE
  /\ initializationPromise = NoLoad
  /\ loads = {}
  /\ faults = 0
  /\ calls = [c \in Procs |-> IdleCall]
  /\ prev = Nil

StartInitialize(c) ==
  /\ calls[c].pc = "idle"
  /\ calls' = [calls EXCEPT ![c] = [IdleCall EXCEPT !.op = "initialize", !.pc = "vi_enter"]]
  /\ UNCHANGED <<disk, edits, db, table, tableExists, rows, model, initializationPromise,
                 loads, faults, prev>>

\* if (this.db) return; else fs.mkdir is called
VI_Enter(c) ==
  /\ calls[c].pc = "vi_enter"
  /\ calls' = [calls EXCEPT ![c] = [@ EXCEPT !.pc = IF db THEN "vi_ok" ELSE "vi_mkdir"]]
  /\ UNCHANGED <<disk, edits, db, table, tableExists, rows, model, initializationPromise,
                 loads, faults, prev>>

\* fs.mkdir resolves; lancedb.connect is called
VI_Mkdir(c) ==
  /\ calls[c].pc = "vi_mkdir"
  /\ calls' = [calls EXCEPT ![c] = [@ EXCEPT !.pc = "vi_connect"]]
  /\ UNCHANGED <<disk, edits, db, table, tableExists, rows, model, initializationPromise,
                 loads, faults, prev>>

\* lancedb.connect resolves: this.db is assigned; tableNames is called
VI_Connect(c) ==
  /\ calls[c].pc = "vi_connect"
  /\ db' = TRUE
  /\ calls' = [calls EXCEPT ![c] = [@ EXCEPT !.pc = "vi_names"]]
  /\ UNCHANGED <<disk, edits, table, tableExists, rows, model, initializationPromise,
                 loads, faults, prev>>

\* tableNames resolves: openTable is called when the table is among the names
VI_Names(c) ==
  /\ calls[c].pc = "vi_names"
  /\ calls' = [calls EXCEPT ![c] =
       [@ EXCEPT !.pc = IF tableExists THEN "vi_open" ELSE "vi_ok"]]
  /\ UNCHANGED <<disk, edits, db, table, tableExists, rows, model, initializationPromise,
                 loads, faults, prev>>

\* openTable resolves: this.table is assigned
VI_Open(c) ==
  /\ calls[c].pc = "vi_open"
  /\ table' = TRUE
  /\ calls' = [calls EXCEPT ![c] = [@ EXCEPT !.pc = "vi_ok"]]
  /\ UNCHANGED <<disk, edits, db, tableExists, rows, model, initializationPromise,
                 loads, faults, prev>>

\* mkdir, connect, tableNames or openTable rejects: "Failed to initialize LanceDB"
VI_Fail(c) ==
  /\ calls[c].pc \in {"vi_mkdir", "vi_connect", "vi_names", "vi_open"}
  /\ faults < MaxFaults
  /\ faults' = faults + 1
  /\ calls' = [calls EXCEPT ![c] = [@ EXCEPT !.pc = "vi_err", !.err = "connect"]]
  /\ UNCHANGED <<disk, edits, db, table, tableExists, rows, model, initializationPromise,
                 loads, prev>>

\* the caller takes the outcome
VI_Done(c) ==
  /\ calls[c].pc \in {"vi_ok", "vi_err"}
  /\ calls' = [calls EXCEPT ![c] = IdleCall]
  /\ UNCHANGED <<disk, edits, db, table, tableExists, rows, model, initializationPromise,
                 loads, faults, prev>>

NextOpen ==
  \/ \E c \in Procs : StartInitialize(c)
  \/ \E c \in Procs : VI_Enter(c)
  \/ \E c \in Procs : VI_Mkdir(c)
  \/ \E c \in Procs : VI_Connect(c)
  \/ \E c \in Procs : VI_Names(c)
  \/ \E c \in Procs : VI_Open(c)
  \/ \E c \in Procs : VI_Fail(c)
  \/ \E c \in Procs : VI_Done(c)

SpecOpen == InitOpen /\ [][NextOpen]_vars

\* ------------------------------------------------ the path predicate
\* deleteFileChunks and the path filter of search on paths written out as
\* strings.  A string is the sequence of its pieces: a letter, "/", the quote
\* "'", and the pieces " OR " and "=" that stand for that text in a path.
cwd == <<"/", "w">>

PathStrings ==
  { <<"/", "a">>, <<"/", "b">>, <<"/", "a", "'">>, <<"/", "a", "'", "'">>,
    <<"/", "a", "'", " OR ", "'", "'", "=", "'">>,
    <<"a">>, <<"/", "w", "/", "a">>, <<"/", "a", "/">> }

\* the segments of a path between its slashes, from piece i on
RECURSIVE pathSegments(_, _, _)
pathSegments(p, i, segment) ==
  IF i > Len(p) THEN <<segment>>
  ELSE IF p[i] = "/" THEN <<segment>> \o pathSegments(p, i + 1, <<>>)
  ELSE pathSegments(p, i + 1, Append(segment, p[i]))

\* path.resolve: the path is made absolute from the working directory;
\* empty segments (doubled and trailing slashes) are dropped
resolve(p) ==
  LET all == IF p # <<>> /\ p[1] = "/" THEN pathSegments(p, 1, <<>>)
             ELSE pathSegments(cwd, 1, <<>>) \o pathSegments(p, 1, <<>>)
      kept == SelectSeq(all, LAMBDA segment : segment # <<>>)
  IN IF kept = <<>> THEN <<"/">>
     ELSE Flatten([i \in 1..Len(kept) |-> <<"/">> \o kept[i]])

escapeNothing(p) == p

\* normalizedPath.replace(/'/g, "''")
escape(p) ==
  Flatten([i \in 1..Len(p) |-> IF p[i] = "'" THEN <<"'", "'">> ELSE <<p[i]>>])

\* `file_path = '${normalizedPath.replace(/'/g, "''")}'`
pathPredicate(filePath) ==
  <<"file_path", "=", "'">> \o escape(resolve(filePath)) \o <<"'">>

\* The filter language of the store: conditions operand = operand joined by
\* OR; an operand is the column file_path or a string literal in quotes, in
\* which a doubled quote stands for one quote.
Unparsed == [ok |-> FALSE, val |-> <<>>, next |-> 0]

\* the literal whose opening quote is before piece i
RECURSIVE readLiteral(_, _, _)
readLiteral(s, i, literal) ==
  IF i > Len(s) THEN Unparsed
  ELSE IF s[i] # "'" THEN readLiteral(s, i + 1, Append(literal, s[i]))
  ELSE IF i + 1 <= Len(s) /\ s[i + 1] = "'"
       THEN readLiteral(s, i + 2, Append(literal, "'"))
       ELSE [ok |-> TRUE, val |-> literal, next |-> i + 1]

operand(s, i, row) ==
  IF i > Len(s) THEN Unparsed
  ELSE IF s[i] = "file_path" THEN [ok |-> TRUE, val |-> row.file_path, next |-> i + 1]
  ELSE IF s[i] = "'" THEN readLiteral(s, i + 1, <<>>)
  ELSE Unparsed

condition(s, i, row) ==
  LET left == operand(s, i, row)
  IN IF ~left.ok \/ left.next > Len(s) THEN Unparsed
     ELSE IF s[left.next] # "=" THEN Unparsed
     ELSE LET right == operand(s, left.next + 1, row)
          IN IF ~right.ok THEN Unparsed
             ELSE [ok |-> TRUE, val |-> (left.val = right.val), next |-> right.next]

RECURSIVE expression(_, _, _)
expression(s, i, row) ==
  LET first == condition(s, i, row)
  IN IF ~first.ok THEN Unparsed
     ELSE IF first.next > Len(s) THEN first
     ELSE IF s[first.next] # " OR " THEN Unparsed
     ELSE LET rest == expression(s, first.next + 1, row)
          IN IF ~rest.ok THEN Unparsed
             ELSE [ok |-> TRUE, val |-> (first.val \/ rest.val), next |-> rest.next]

\* the store accepts the predicate (the answer does not depend on the row)
parses(predicate) == expression(predicate, 1, [file_path |-> <<>>]).ok

\* the row is selected by the predicate
where(predicate, row) == expression(predicate, 1, row).val

deleteWhereAll(rws, predicate) == [k \in DOMAIN rws |-> <<>>]

\* table.delete(predicate): the table without the rows the predicate selects
deleteWhere(rws, predicate) ==
  [k \in DOMAIN rws |-> SelectSeq(rws[k], LAMBDA row : ~where(predicate, row))]

\* the rows of the table that the predicate selects
selectWhere(rws, predicate) ==
  SelectSeq(Flatten([k \in 1..Cardinality(DOMAIN rws) |-> rws[k]]),
            LAMBDA row : where(predicate, row))

\* the rows that indexing the file at source has stored
storedRows(source) ==
  withEmbeddings(<<createChunk(<<Para(10, 1, {1})>>, resolve(source), 1, 1, 0)>>,
                 <<embed(<<Para(10, 1, {1})>>)>>)

InitFilter ==
  /\ disk = [p \in Paths |-> "long"]
  /\ edits = 0
  /\ db = FALSE
  /\ table = FALSE
  /\ tableExists \in BOOLEAN
  /\ IF tableExists
     THEN \E sources \in [Paths -> PathStrings] :
            rows = [k \in Paths |-> storedRows(sources[k])]
     ELSE rows = [k \in Paths |-> <<>>]
  /\ model = FALSE
  /\ initializationPromise = NoLoad
  /\ loads = {}
  /\ faults = 0
  /\ calls = [c \in Procs |-> IdleCall]
  /\ prev = Nil

StartDeleteFileChunks(c, filePath) ==
  /\ calls[c].pc = "idle"
  /\ calls' = [calls EXCEPT ![c] =
       [IdleCall EXCEPT !.op = "deleteFileChunks", !.pc = "df_call", !.path = filePath]]
  /\ UNCHANGED <<disk, edits, db, table, tableExists, rows, model, initializationPromise,
                 loads, faults, prev>>

\* deleteFileChunks: initialize, 0 without a table, else table.delete; a
\* predicate the store does not accept makes table.delete reject
DF_Delete(c) ==
  /\ calls[c].pc = "df_call"
  /\ db' = TRUE
  /\ table' = initializedTable
  /\ LET predicate == pathPredicate(calls[c].path)
     IN IF ~initializedTable
        THEN /\ rows' = rows
             /\ calls' = [calls EXCEPT ![c] = [@ EXCEPT !.ret = 0, !.pc = "df_ok"]]
        ELSE IF ~parses(predicate)
        THEN /\ rows' = rows
             /\ calls' = [calls EXCEPT ![c] =
                  [@ EXCEPT !.ret = 0, !.pc = "df_ok", !.stepsFailed = @ \cup {"delete"}]]
        ELSE /\ rows' = deleteWhere(rows, predicate)
             /\ calls' = [calls EXCEPT ![c] =
                  [@ EXCEPT !.ret = 1, !.pc = "df_ok",
                            !.candidates = selectWhere(rows, predicate)]]
  /\ UNCHANGED <<disk, edits, tableExists, model, initializationPromise, loads, faults, prev>>

\* table.delete rejects: the error is logged and 0 returned
DF_DeleteFail(c) ==
  /\ calls[c].pc = "df_call"
  /\ initializedTable
  /\ faults < MaxFaults
  /\ faults' = faults + 1
  /\ db' = TRUE
  /\ table' = initializedTable
  /\ calls' = [calls EXCEPT ![c] =
       [@ EXCEPT !.ret = 0, !.pc = "df_ok", !.stepsFailed = @ \cup {"delete"}]]
  /\ UNCHANGED <<disk, edits, tableExists, rows, model, initializationPromise, loads, prev>>

StartPathSearch(c, filePathFilter) ==
  /\ calls[c].pc = "idle"
  /\ calls' = [calls EXCEPT ![c] =
       [IdleCall EXCEPT !.op = "search", !.pc = "ps_call", !.path = filePathFilter]]
  /\ UNCHANGED <<disk, edits, db, table, tableExists, rows, model, initializationPromise,
                 loads, faults, prev>>

\* search with a path filter: initialize, [] without a table, else the query
\* is embedded and the rows that pass where(...) are the candidates
PS_Where(c) ==
  /\ calls[c].pc = "ps_call"
  /\ db' = TRUE
  /\ table' = initializedTable
  /\ model' = (model \/ initializedTable)
  /\ initializationPromise' = IF model' = model THEN initializationPromise ELSE c
  /\ LET predicate == pathPredicate(calls[c].path)
     IN calls' = [calls EXCEPT ![c] =
          IF ~initializedTable THEN [@ EXCEPT !.pc = "ps_ok"]
          ELSE IF ~parses(predicate)
          THEN [@ EXCEPT !.pc = "ps_err", !.err = "search"]
          ELSE [@ EXCEPT !.pc = "ps_ok", !.candidates = selectWhere(rows, predicate)]]
  /\ UNCHANGED <<disk, edits, tableExists, rows, loads, faults, prev>>

\* the caller takes the outcome
PF_Done(c) ==
  /\ calls[c].pc \in {"df_ok", "ps_ok", "ps_err"}
  /\ calls' = [calls EXCEPT ![c] = IdleCall]
  /\ UNCHANGED <<disk, edits, db, table, tableExists, rows, model, initializationPromise,
                 loads, faults, prev>>

NextFilter ==
  \/ \E filePath \in PathStrings : StartDeleteFileChunks(1, filePath)
  \/ DF_Delete(1)
  \/ DF_DeleteFail(1)
  \/ \E filePathFilter \in PathStrings : StartPathSearch(1, filePathFilter)
  \/ PS_Where(1)
  \/ PF_Done(1)

SpecFilter == InitFilter /\ [][NextFilter]_vars

\* ------------------------------------------------- CallTool requests
\* The request handler of the server.  The first argument of a tool (query,
\* path, workspace_root) is given by its kind: it is absent, the empty
\* string, a string of white space, another string, or a number.  The core function a tool calls either returns or throws an
\* Error, as every failure of search.ts and vectordb.ts is thrown wrapped in
\* new Error(...).
Tools == {"search", "index_file", "index_directory", "reindex_all", "get_stats"}
ToolNames == Tools \cup {"unknown_tool"}
ArgKinds == {"absent", "empty", "blank", "string", "number"}

\* !value
falsy(kind) == kind \in {"absent", "empty"}

\* the check of the arguments at the head of a tool handler: the message of
\* the Error thrown, "" when none is thrown
invalidArguments(tool, args) ==
  CASE tool = "search" ->
         IF falsy(args.first) \/ args.first = "number" \/ args.first = "blank"
         THEN "Query parameter is required and must be a non-empty string" ELSE ""
    [] tool \in {"index_file", "index_directory"} ->
         IF falsy(args.first) \/ args.first = "number"
         THEN "Path parameter is required and must be a string" ELSE ""
    [] tool = "reindex_all" ->
         \* path.resolve(workspace_root) throws a TypeError on a non-string
         IF args.first = "number"
         THEN "The \"paths[0]\" argument must be of type string" ELSE ""
    [] OTHER -> ""

catchesCoreOnly(stage) == stage = "core"

\* the try block of the handler holds the whole switch: the default branch,
\* the argument checks and the core call
catches(stage) == stage \in {"switch", "arguments", "core"}

\* catch (error): { content: [{ text: `Error: ${error.message}` }], isError: true }
errorResponse(message) == [isError |-> TRUE, text |-> <<"Error: ", message>>]

\* where an Error thrown at stage takes the request
thrown(cr, stage, message) ==
  IF catches(stage)
  THEN [cr EXCEPT !.pc = "ct_done", !.response = errorResponse(message), !.thrownAt = stage]
  ELSE [cr EXCEPT !.pc = "ct_escaped", !.err = message, !.thrownAt = stage]

CallTool(c, name, args) ==
  /\ calls[c].pc = "idle"
  /\ calls' = [calls EXCEPT ![c] =
       [IdleCall EXCEPT !.op = "callTool", !.pc = "ct_switch", !.tool = name, !.args = args]]
  /\ UNCHANGED <<disk, edits, db, table, tableExists, rows, model, initializationPromise,
                 loads, faults, prev>>

\* switch (name): the handler of the tool checks its arguments and calls the
\* core function; default: throw new Error(`Unknown tool: ${name}`)
CT_Switch(c) ==
  /\ calls[c].pc = "ct_switch"
  /\ calls' = [calls EXCEPT ![c] =
       IF calls[c].tool \notin Tools THEN thrown(@, "switch", "Unknown tool")
       ELSE IF invalidArguments(calls[c].tool, calls[c].args) # ""
       THEN thrown(@, "arguments", invalidArguments(calls[c].tool, calls[c].args))
       ELSE [@ EXCEPT !.pc = "ct_core"]]
  /\ UNCHANGED <<disk, edits, db, table, tableExists, rows, model, initializationPromise,
                 loads, faults, prev>>

\* the core function returns: the handler returns its payload
CT_Return(c) ==
  /\ calls[c].pc = "ct_core"
  /\ calls' = [calls EXCEPT ![c] =
       [@ EXCEPT !.pc = "ct_done",
                 !.response = [isError |-> FALSE, text |-> <<calls[c].tool>>]]]
  /\ UNCHANGED <<disk, edits, db, table, tableExists, rows, model, initializationPromise,
                 loads, faults, prev>>

\* the core function throws new Error(...)
CT_Throw(c) ==
  /\ calls[c].pc = "ct_core"
  /\ calls' = [calls EXCEPT ![c] = thrown(@, "core", "Failed")]
  /\ UNCHANGED <<disk, edits, db, table, tableExists, rows, model, initializationPromise,
                 loads, faults, prev>>

\* the response is sent
CT_Done(c) ==
  /\ calls[c].pc \in {"ct_done", "ct_escaped"}
  /\ calls' = [calls EXCEPT ![c] = IdleCall]
  /\ UNCHANGED <<disk, edits, db, table, tableExists, rows, model, initializationPromise,
                 loads, faults, prev>>

NextServer ==
  \/ \E c \in Procs, name \in ToolNames, first \in ArgKinds :
       CallTool(c, name, [first |-> first])
  \/ \E c \in Procs : CT_Switch(c)
  \/ \E c \in Procs : CT_Return(c)
  \/ \E c \in Procs : CT_Throw(c)
  \/ \E c \in Procs : CT_Done(c)

SpecServer == Init /\ [][NextServer]_vars

\* addChunks and embedBatch on any list of chunks, batch by batch.  The list
\* has up to MaxTexts chunks of one path; chunk i is about one word, which
\* changes from chunk to chunk in a cycle of three.
ChunkLists ==
  { [i \in 1..n |->
       createChunk(<<Para(10, 1, {((i + offset) % 3) + 1})>>, 1, i, i, i - 1)] :
    n \in 0..MaxTexts, offset \in 0..2 }

InitEmbed ==
  /\ disk = [p \in Paths |-> "long"]
  /\ edits = 0
  /\ db = FALSE
  /\ table = FALSE
  /\ tableExists \in BOOLEAN
  /\ rows = [p \in Paths |-> <<>>]
  /\ model = FALSE
  /\ initializationPromise = NoLoad
  /\ loads = {}
  /\ faults = 0
  /\ \E chunks \in ChunkLists :
       calls = [c \in Procs |->
                  IF c = 1
                  THEN [IdleCall EXCEPT !.op = "addChunks", !.pc = "ac_call",
                                        !.path = 1, !.chunks = chunks]
                  ELSE IdleCall]
  /\ prev = Nil

\* addChunks: initialize, the empty list returns at once, else embedBatch
AC_Call(c) ==
  /\ calls[c].pc = "ac_call"
  /\ db' = TRUE
  /\ table' = initializedTable
  /\ calls' = [calls EXCEPT ![c] =
       IF Len(calls[c].chunks) = 0
       THEN [@ EXCEPT !.pc = "ac_ok"]
       ELSE [@ EXCEPT !.pc = "eb_loop", !.i = 0, !.embeddings = <<>>]]
  /\ UNCHANGED <<disk, edits, tableExists, rows, model, initializationPromise, loads, faults, prev>>

\* one turn of the loop of embedBatch: the embeddings of the batch are pushed
EB_Batch(c) ==
  /\ calls[c].pc = "eb_loop"
  /\ calls[c].i < Len(calls[c].chunks)
  /\ model' = TRUE
  /\ initializationPromise' = IF model' = model THEN initializationPromise ELSE c
  /\ loads' = loads
  /\ calls' = [calls EXCEPT ![c] =
       [@ EXCEPT !.embeddings =
                   @ \o embedAll(batchOf([k \in 1..Len(calls[c].chunks) |->
                                            calls[c].chunks[k].text], calls[c].i)),
                 !.i = @ + batchSize]]
  /\ UNCHANGED <<disk, edits, db, table, tableExists, rows, faults, prev>>

embedBatchReturnsPartial(cr) ==
  [cr EXCEPT !.returned = cr.embeddings, !.pc = "ac_insert",
             !.stepsFailed = @ \cup {"embed"}]

\* the catch blocks of embedBatch and of addChunks: nothing is returned
embedBatchThrow(cr) ==
  [cr EXCEPT !.returned = Nil, !.pc = "ac_err", !.err = "embed",
             !.stepsFailed = @ \cup {"embed"}]

\* an embed call of the batch rejects: Promise.all rejects
EB_BatchFail(c) ==
  /\ calls[c].pc = "eb_loop"
  /\ calls[c].i < Len(calls[c].chunks)
  /\ faults < MaxFaults
  /\ faults' = faults + 1
  /\ model' = TRUE
  /\ initializationPromise' = IF model' = model THEN initializationPromise ELSE c
  /\ loads' = loads
  /\ calls' = [calls EXCEPT ![c] = embedBatchThrow(@)]
  /\ UNCHANGED <<disk, edits, db, table, tableExists, rows, prev>>

\* embedBatch returns embeddings
EB_Return(c) ==
  /\ calls[c].pc = "eb_loop"
  /\ calls[c].i >= Len(calls[c].chunks)
  /\ calls' = [calls EXCEPT ![c] = [@ EXCEPT !.returned = calls[c].embeddings,
                                             !.pc = "ac_insert"]]
  /\ UNCHANGED <<disk, edits, db, table, tableExists, rows, model, initializationPromise, loads, faults, prev>>

\* chunksWithEmbeddings, then createTable or table.add
AC_Insert(c) ==
  /\ calls[c].pc = "ac_insert"
  /\ rows' = tableAdd(rows, withEmbeddings(calls[c].chunks, calls[c].returned))
  /\ table' = TRUE
  /\ tableExists' = TRUE
  /\ calls' = [calls EXCEPT ![c] = [@ EXCEPT !.pc = "ac_ok"]]
  /\ UNCHANGED <<disk, edits, db, model, initializationPromise, loads, faults, prev>>

\* the caller of addChunks takes the outcome
AC_Done(c) ==
  /\ calls[c].pc \in {"ac_ok", "ac_err"}
  /\ calls[c].op = "addChunks"
  /\ calls' = [calls EXCEPT ![c] = IdleCall]
  /\ UNCHANGED <<disk, edits, db, table, tableExists, rows, model, initializationPromise, loads, faults, prev>>

NextEmbed ==
  \/ AC_Call(1)
  \/ EB_Batch(1)
  \/ EB_BatchFail(1)
  \/ EB_Return(1)
  \/ AC_Insert(1)
  \/ AC_Done(1)

SpecEmbed == InitEmbed /\ [][NextEmbed]_vars

\* The chunker on any document.  A document has up to MaxParas paragraphs;
\* paragraph i is about the word i alone, has one of the lengths ParaLens and
\* one or two lines, and is followed by one or two blank lines (the last
\* one by none or one); up to two blank lines open the document.
ParaLens == {150, 500, 900, 1500}

Contents ==
  UNION { { Content(lead,
                    [i \in 1..n |-> Para(f[i][1], f[i][2], {i})],
                    [i \in 1..n |-> IF i < n THEN f[i][3] ELSE f[i][3] - 1]) :
              f \in [1..n -> ParaLens \X {1, 2} \X {1, 2}], lead \in 0..2 } :
          n \in 0..MaxParas }

InitChunk ==
  /\ disk = [p \in Paths |-> "long"]
  /\ edits = 0
  /\ db = FALSE
  /\ table = FALSE
  /\ tableExists = FALSE
  /\ rows = [p \in Paths |-> <<>>]
  /\ model = FALSE
  /\ initializationPromise = NoLoad
  /\ loads = {}
  /\ faults = 0
  /\ \E content \in Contents :
       calls = [c \in Procs |->
                  IF c = 1
                  THEN [IdleCall EXCEPT !.op = "chunkDocument", !.pc = "cd_call",
                                        !.path = 1, !.input = content]
                  ELSE IdleCall]
  /\ prev = Nil

\* chunkDocument(content, filePath) returns
CD_Return(c) ==
  /\ calls[c].pc = "cd_call"
  /\ calls' = [calls EXCEPT ![c] =
       [@ EXCEPT !.chunks = chunkDocument(calls[c].input, calls[c].path), !.pc = "cd_ok"]]
  /\ UNCHANGED <<disk, edits, db, table, tableExists, rows, model, initializationPromise, loads, faults, prev>>

\* the caller drops the chunks
CD_Done(c) ==
  /\ calls[c].pc = "cd_ok"
  /\ calls' = [calls EXCEPT ![c] = IdleCall]
  /\ UNCHANGED <<disk, edits, db, table, tableExists, rows, model, initializationPromise, loads, faults, prev>>

NextChunk ==
  \/ CD_Return(1)
  \/ CD_Done(1)

SpecChunk == InitChunk /\ [][NextChunk]_vars

\* ================================================================== claims
\* The rows a successful indexFile of filePath with content d is meant to leave.
ExpectedRows(d, filePath) == chunksWithEmbeddings(chunkDocument(Doc(d), filePath))

IndexFileReturned(c) == calls[c].op = "indexFile" /\ calls[c].pc = "if_ok"
IndexFileFailed(c) == calls[c].op = "indexFile" /\ calls[c].pc = "if_err"

\* C1 (replace semantics): whenever a top-level indexFile(p) has returned
\* successfully, the rows stored for p are exactly the chunks of p's current
\* content, and their number is the returned chunk count.
C1_ReplaceSemantics ==
  \A c \in Procs :
    IndexFileReturned(c) =>
      /\ rows[calls[c].path] = ExpectedRows(disk[calls[c].path], calls[c].path)
      /\ Len(rows[calls[c].path]) = calls[c].ret

\* C2 (idempotent reindex): when indexFile(p) returns successfully right after a
\* successful indexFile(p) on the same content, it returns the same chunk count,
\* p has as many rows as after the first call, and the call changed no row of
\* another path.
C2_IdempotentReindex ==
  \A c \in Procs :
    ( /\ IndexFileReturned(c)
      /\ prev # Nil
      /\ prev.path = calls[c].path
      /\ prev.content = calls[c].content )
    => /\ calls[c].ret = prev.ret
       /\ Len(rows[calls[c].path]) = prev.n
       /\ ~calls[c].touchedOthers

\* C3 (failure after the delete step): when indexFile(p) has failed in the
\* embedding or in the store insert, the store holds no rows for p.
C3_FailedLeavesNoRows ==
  \A c \in Procs :
    (IndexFileFailed(c) /\ calls[c].err \in {"load", "embed", "insert"})
    => rows[calls[c].path] = <<>>

\* C4 (every failing step fails the call): once a step of indexFile has failed
\* (read, delete, chunk, embed, insert) the call goes on to no further step,
\* inserts nothing and does not return a chunk count.
C4_AnyStepFailureFails ==
  \A c \in Procs :
    (calls[c].op = "indexFile" /\ calls[c].stepsFailed # {})
    => calls[c].pc \notin {"if_embed", "if_insert", "if_inserting", "if_ok"}

\* C5 (unlocked delete-then-insert): calls on one path that do not overlap in
\* time keep the replace invariant: when an indexFile(p) that overlapped no
\* other call on p has returned, is the last to have read p, and no call on p
\* is running, the rows of p are exactly the chunks of the content it read.
\* C5_Interleaved is a state two overlapping calls reach in which that fails.
C5_SerialCallsReplace ==
  \A c \in Procs :
    ( /\ IndexFileReturned(c)
      /\ calls[c].latest
      /\ ~calls[c].overlapped
      /\ \A d \in Procs \ {c} :
           ~(calls[d].pc \in Running /\ calls[d].path = calls[c].path) )
    => rows[calls[c].path] = ExpectedRows(calls[c].content, calls[c].path)

C5_Interleaved ==
  \E c \in Procs : \E d \in Procs \ {c} :
    /\ IndexFileReturned(c) /\ IndexFileReturned(d)
    /\ calls[c].path = calls[d].path
    /\ calls[c].latest
    /\ rows[calls[c].path] # <<>>
    /\ rows[calls[c].path] # ExpectedRows(calls[c].content, calls[c].path)

\* C6 (indexDirectory): the files attempted so far are the matched files in
\* order, each once; at the return every matched file was attempted, indexed
\* is the sum of the chunk counts of the files that succeeded and failed is the
\* list of the files that failed.
AttemptFiles(cr) == [i \in 1..Len(cr.attempts) |-> cr.attempts[i].file]
AttemptCounts(cr) ==
  [i \in 1..Len(cr.attempts) |-> IF cr.attempts[i].ok THEN cr.attempts[i].count ELSE 0]
AttemptFailures(cr) ==
  LET bad == SelectSeq(cr.attempts, LAMBDA a : ~a.ok)
  IN [i \in 1..Len(bad) |-> bad[i].file]

C6_DirectoryPass ==
  \A c \in Procs :
    /\ calls[c].pc = "id_loop" =>
         AttemptFiles(calls[c]) = SubSeq(calls[c].files, 1, calls[c].idx - 1)
    /\ calls[c].pc = "id_ok" =>
         /\ AttemptFiles(calls[c]) = calls[c].files
         /\ calls[c].indexed = SumSeq(AttemptCounts(calls[c]))
         /\ calls[c].failed = AttemptFailures(calls[c])

C6_FailureThenSuccess ==
  \E c \in Procs :
    /\ calls[c].pc = "id_ok"
    /\ Len(calls[c].attempts) = 2
    /\ ~calls[c].attempts[1].ok
    /\ calls[c].attempts[2].ok
    /\ calls[c].indexed > 0

PatternsRun(cr) == [i \in 1..Len(cr.patLog) |-> cr.patLog[i].pattern]

CompletedPatterns(cr) == SelectSeq(cr.patLog, LAMBDA r : r.ok)

C9_PatternFailureIsolated ==
  \A c \in Procs :
    calls[c].pc = "ra_ok" =>
      LET done == CompletedPatterns(calls[c])
      IN /\ PatternsRun(calls[c]) = indexPaths
         /\ calls[c].totalIndexed = SumSeq([i \in 1..Len(done) |-> done[i].indexed])
         /\ calls[c].allFailed = Flatten([i \in 1..Len(done) |-> done[i].failed])

C9_LaterPatternIndexed ==
  \E c \in Procs :
    /\ calls[c].pc = "ra_ok"
    /\ Len(calls[c].patLog) = Len(indexPaths)
    /\ ~calls[c].patLog[1].ok
    /\ calls[c].patLog[Len(indexPaths)].ok
    /\ calls[c].patLog[Len(indexPaths)].indexed > 0

\* C10 (result size): a search that returned has at most limit results, for
\* every query, every limit >= 1 and both values of the hybrid flag.
C10_AtMostLimit ==
  \A c \in Procs :
    calls[c].pc = "hs_ok" => Len(calls[c].results) <= calls[c].limit

C10_Truncated ==
  \E c \in Procs :
    /\ calls[c].pc = "hs_ok"
    /\ calls[c].hybrid
    /\ Len(calls[c].candidates) > calls[c].limit
    /\ Len(calls[c].results) = calls[c].limit

\* ------------------------------------------------------- claims on ranking
\* A search that has returned, and the pieces of its result.
SearchReturned(c) == calls[c].op = "search" /\ calls[c].pc = "hs_ok"

\* the place in the store's answer of the candidate the result r was made of
CandidateOf(cr, r) ==
  CHOOSE i \in 1..Len(cr.candidates) : cr.candidates[i].chunk.id = r.chunk.id

\* the place of the i-th candidate in the returned list, 0 when it is cut off
ResultPos(cr, i) ==
  IF \E j \in 1..Len(cr.results) : cr.results[j].chunk.id = cr.candidates[i].chunk.id
  THEN CHOOSE j \in 1..Len(cr.results) : cr.results[j].chunk.id = cr.candidates[i].chunk.id
  ELSE 0

\* the number of words of the query that are longer than 3 characters and
\* occur, in small letters, inside the text written in small letters
KeywordMatches(query, text) ==
  Cardinality({ j \in 1..Len(query) :
                  /\ WordLen(query[j]) > 3
                  /\ \E w \in WordsOf(text) :
                       toLowerCase(query[j]) \in Substrings(toLowerCase(w)) })

\* C11: every result that search returns, with hybrid on or off and whatever
\* distance the store reports, has a score between 0 and 1 and a distance
\* of at least 0.
C11_ScoreInUnitInterval ==
  \A c \in Procs :
    SearchReturned(c) =>
      \A i \in 1..Len(calls[c].results) :
        /\ calls[c].results[i].score >= 0
        /\ calls[c].results[i].score <= 1000
        /\ calls[c].results[i].distance >= 0

\* C12: with hybrid on the returned list is in non-increasing order of final
\* score, and results of equal final score keep the order they had in the
\* candidate list of the store.
C12_SortedStable ==
  \A c \in Procs :
    (SearchReturned(c) /\ calls[c].hybrid) =>
      \A i, j \in 1..Len(calls[c].results) :
        i < j =>
          /\ calls[c].results[i].score >= calls[c].results[j].score
          /\ calls[c].results[i].score = calls[c].results[j].score
               => CandidateOf(calls[c], calls[c].results[i])
                    < CandidateOf(calls[c], calls[c].results[j])

\* A hybrid search moved a candidate to the front and returned two results
\* whose final scores are equal though their base scores differ.
C12_TieAfterBoost ==
  \E c \in Procs :
    /\ SearchReturned(c) /\ calls[c].hybrid
    /\ Len(calls[c].results) >= 2
    /\ CandidateOf(calls[c], calls[c].results[1]) > 1
    /\ \E i, j \in 1..Len(calls[c].results) :
         /\ i < j
         /\ calls[c].results[i].score = calls[c].results[j].score
         /\ calls[c].results[i].distance # calls[c].results[j].distance

\* C13: with hybrid on, the keywords are the query's words in small letters
\* that are longer than 3 characters, and the final score of every result is
\* min(base score + 0.2 for every keyword found inside its text, 1.0).
C13_BoostPerKeyword ==
  \A c \in Procs :
    (SearchReturned(c) /\ calls[c].hybrid) =>
      \A i \in 1..Len(calls[c].results) :
        LET r == calls[c].results[i]
            base == calls[c].candidates[CandidateOf(calls[c], r)].score
            raised == base + 200 * KeywordMatches(calls[c].query, r.chunk.text)
        IN r.score = IF raised <= 1000 THEN raised ELSE 1000

\* A query with a three-character word and a capitalised long word: the text
\* holds the short word and the long one inside a longer word, and gains 0.2.
C13_ShortWordIgnored ==
  \E c \in Procs :
    /\ SearchReturned(c) /\ calls[c].hybrid
    /\ calls[c].query = <<3, 11>>
    /\ \E i \in 1..Len(calls[c].results) :
         LET r == calls[c].results[i]
         IN /\ WordsOf(r.chunk.text) = {3, 4}
            /\ r.score = (1000 - r.distance) + 200
            /\ r.score < 1000

\* C14: the score a result has with hybrid on is never lower than the score
\* the same result has with hybrid off (its base score).
C14_ScoreNeverLower ==
  \A c \in Procs :
    (SearchReturned(c) /\ calls[c].hybrid) =>
      \A i \in 1..Len(calls[c].results) :
        calls[c].results[i].score
          >= calls[c].candidates[CandidateOf(calls[c], calls[c].results[i])].score

\* A hybrid search returned a result with a score above its base score.
C14_ScoreRaised ==
  \E c \in Procs :
    /\ SearchReturned(c) /\ calls[c].hybrid
    /\ \E i \in 1..Len(calls[c].results) :
         calls[c].results[i].score
           > calls[c].candidates[CandidateOf(calls[c], calls[c].results[i])].score

\* C15 as the specification states it: with hybrid on, a result is never
\* ranked below a competitor that has the same base score and strictly fewer
\* keyword matches (a competitor that is returned while the result is cut
\* off is ranked above it).
C15_MoreMatchesRankHigher ==
  \A c \in Procs :
    (SearchReturned(c) /\ calls[c].hybrid) =>
      \A a, b \in 1..Len(calls[c].candidates) :
        ( /\ calls[c].candidates[a].score = calls[c].candidates[b].score
          /\ KeywordMatches(calls[c].query, calls[c].candidates[a].chunk.text)
               > KeywordMatches(calls[c].query, calls[c].candidates[b].chunk.text)
          /\ ResultPos(calls[c], b) # 0 )
        => /\ ResultPos(calls[c], a) # 0
           /\ ResultPos(calls[c], a) < ResultPos(calls[c], b)

\* C15: with hybrid on, a result is never ranked below a competitor that has
\* the same base score and strictly fewer keyword matches, unless the
\* competitor's final score is the cap 1.0: then both have the final score
\* 1.0 and keep the order the store gave them.
C15_MoreMatchesRankHigherBelowCap ==
  \A c \in Procs :
    (SearchReturned(c) /\ calls[c].hybrid) =>
      \A a, b \in 1..Len(calls[c].candidates) :
        ( /\ calls[c].candidates[a].score = calls[c].candidates[b].score
          /\ KeywordMatches(calls[c].query, calls[c].candidates[a].chunk.text)
               > KeywordMatches(calls[c].query, calls[c].candidates[b].chunk.text)
          /\ ResultPos(calls[c], b) # 0 )
        => \/ /\ ResultPos(calls[c], a) # 0
              /\ ResultPos(calls[c], a) < ResultPos(calls[c], b)
           \/ /\ calls[c].results[ResultPos(calls[c], b)].score = 1000
              /\ a > b

\* The store put a candidate behind a competitor of the same base score and
\* fewer keyword matches, and the hybrid search returned it ahead of the
\* competitor.
C15_Overtakes ==
  \E c \in Procs :
    /\ SearchReturned(c) /\ calls[c].hybrid
    /\ \E a, b \in 1..Len(calls[c].candidates) :
         /\ a > b
         /\ calls[c].candidates[a].score = calls[c].candidates[b].score
         /\ KeywordMatches(calls[c].query, calls[c].candidates[a].chunk.text)
              > KeywordMatches(calls[c].query, calls[c].candidates[b].chunk.text)
         /\ ResultPos(calls[c], b) # 0
         /\ ResultPos(calls[c], a) # 0
         /\ ResultPos(calls[c], a) < ResultPos(calls[c], b)

\* C16 as the specification states it: with hybrid on, a chunk whose text
\* contains at least one keyword of the query gets a final score at least
\* 0.2 above its score with hybrid off.
C16_BoostAtLeastFifth ==
  \A c \in Procs :
    (SearchReturned(c) /\ calls[c].hybrid) =>
      \A i \in 1..Len(calls[c].results) :
        KeywordMatches(calls[c].query, calls[c].results[i].chunk.text) >= 1
          => calls[c].results[i].score
               >= calls[c].candidates[CandidateOf(calls[c], calls[c].results[i])].score + 200

\* C16: with hybrid on, a chunk whose text contains at least one keyword of
\* the query gets a final score that is at least 0.2 above its score with
\* hybrid off, or the cap 1.0 when its base score is above 0.8.
C16_BoostAtLeastFifthOrCap ==
  \A c \in Procs :
    (SearchReturned(c) /\ calls[c].hybrid) =>
      \A i \in 1..Len(calls[c].results) :
        LET base == calls[c].candidates[CandidateOf(calls[c], calls[c].results[i])].score
        IN KeywordMatches(calls[c].query, calls[c].results[i].chunk.text) >= 1
             => \/ calls[c].results[i].score >= base + 200
                \/ base > 800 /\ calls[c].results[i].score = 1000

\* A chunk of base score 0.9 that contains one keyword is returned with 1.0.
C16_CappedBoost ==
  \E c \in Procs :
    /\ SearchReturned(c) /\ calls[c].hybrid
    /\ \E i \in 1..Len(calls[c].results) :
         /\ KeywordMatches(calls[c].query, calls[c].results[i].chunk.text) = 1
         /\ calls[c].results[i].distance = 100
         /\ calls[c].results[i].score = 1000

\* C17: search asks the store for 2 x limit candidates; with hybrid off it
\* returns the first `limit` of them unchanged, in the store's order; with
\* hybrid on a candidate the store ranked behind the first `limit` can be
\* returned.
C17_OverFetchThenCut ==
  \A c \in Procs :
    SearchReturned(c) =>
      /\ Len(calls[c].candidates) <= 2 * calls[c].limit
      /\ ~calls[c].hybrid =>
           /\ Len(calls[c].results)
                = (IF Len(calls[c].candidates) < calls[c].limit
                   THEN Len(calls[c].candidates) ELSE calls[c].limit)
           /\ \A i \in 1..Len(calls[c].results) :
                calls[c].results[i] = calls[c].candidates[i]

\* The store answered with 2 x limit candidates and the hybrid search
\* returned one that is farther from the query than the first `limit`.
C17_LateCandidateReturned ==
  \E c \in Procs :
    /\ SearchReturned(c) /\ calls[c].hybrid
    /\ Len(calls[c].candidates) = 2 * calls[c].limit
    /\ \E i \in 1..Len(calls[c].results) :
         /\ CandidateOf(calls[c], calls[c].results[i]) > calls[c].limit
         /\ calls[c].results[i].distance > calls[c].candidates[calls[c].limit].distance

\* ------------------------------------------------- claims on search errors
\* C18: the result list of a search holds no chunk twice: no two results
\* have the same id (source path and chunk ordinal), whatever index, reindex
\* and delete operations came before.
C18_NoDuplicateResults ==
  \A c \in Procs :
    SearchReturned(c) =>
      \A i, j \in 1..Len(calls[c].results) :
        i # j => calls[c].results[i].chunk.id # calls[c].results[j].chunk.id

C20_NoTableIsNoError ==
  [][\A c \in Procs :
       (calls[c].pc \in {"if_delete", "hs_search"} /\ ~tableExists /\ calls'[c] # calls[c])
         => /\ ~tableExists'
            /\ ~table'
            /\ rows' = rows
            /\ \/ calls'[c].err = "connect"
               \/ /\ calls'[c].err = ""
                  /\ "delete" \notin calls'[c].stepsFailed
                  /\ calls[c].pc = "hs_search" =>
                       calls'[c].pc = "hs_rerank" /\ calls'[c].candidates = <<>>
                  /\ calls[c].pc = "if_delete" => calls'[c].pc \in {"if_embed", "if_ok"}]_vars

\* reindexAll dropped the table with its rows, and the delete of the first
\* file it indexes found no table and went on to the embedding.
C20_DeleteAfterClear ==
  \E c \in Procs :
    /\ calls[c].op = "reindexAll" /\ calls[c].pc = "if_embed"
    /\ calls[c].droppedRows
    /\ db /\ ~tableExists /\ ~table

\* ------------------------------------------------------- claims on chunking
\* A chunkDocument call that has returned.
ChunkerReturned(c) == calls[c].op = "chunkDocument" /\ calls[c].pc = "cd_ok"

\* the paragraphs of all the chunks, in the order of emission
EmittedParagraphs(chunks) == Flatten([k \in 1..Len(chunks) |-> chunks[k].text])

\* the position in its document of a paragraph (paragraph i is about word i)
ParaIndex(paragraph) == CHOOSE i \in paragraph.words : TRUE

\* the line of the source document on which paragraph i begins
RECURSIVE SourceLine(_, _)
SourceLine(content, i) ==
  IF i = 1 THEN content.lead + 1
  ELSE SourceLine(content, i - 1) + content.paras[i - 1].lines + content.gaps[i - 1]

C23_NoParagraphDropped ==
  \A c \in Procs :
    ChunkerReturned(c) => EmittedParagraphs(calls[c].chunks) = calls[c].input.paras

\* C24: chunking an empty or whitespace-only input returns no chunk, and no
\* chunk with an empty text is ever emitted.
C24_EmptyInputNoChunk ==
  \A c \in Procs :
    ChunkerReturned(c) =>
      /\ calls[c].input.paras = <<>> => calls[c].chunks = <<>>
      /\ \A k \in 1..Len(calls[c].chunks) : calls[c].chunks[k].text # <<>>

\* C25: every chunk has a text of at most maxChunkSize (1000) characters,
\* except the final chunk of a document that is one single paragraph.
C25_ChunkWithinMax ==
  \A c \in Procs :
    ChunkerReturned(c) =>
      \A k \in 1..Len(calls[c].chunks) :
        \/ TextLen(calls[c].chunks[k].text) <= 1000
        \/ k = Len(calls[c].chunks) /\ Len(calls[c].input.paras) = 1

\* C26: line_start of a chunk is the line of the source document on which
\* its first paragraph begins and line_end the line on which its last
\* paragraph ends, however many blank lines open the document and separate
\* its paragraphs.
C26_SourceLineRange ==
  \A c \in Procs :
    ChunkerReturned(c) =>
      \A k \in 1..Len(calls[c].chunks) :
        LET text == calls[c].chunks[k].text
            first == ParaIndex(text[1])
            last == ParaIndex(text[Len(text)])
        IN text # <<>> =>
             /\ calls[c].chunks[k].line_start = SourceLine(calls[c].input, first)
             /\ calls[c].chunks[k].line_end
                  = SourceLine(calls[c].input, last) + calls[c].input.paras[last].lines - 1

C28_LineRangeNotEmpty ==
  \A c \in Procs :
    ChunkerReturned(c) =>
      \A k \in 1..Len(calls[c].chunks) :
        /\ calls[c].chunks[k].line_start >= 1
        /\ calls[c].chunks[k].line_start <= calls[c].chunks[k].line_end

\* ------------------------------------------------------- claims on getStats
\* C21: getStats on a store without a table, never indexed or emptied by
\* clear(), returns {total_chunks: 0, total_files: 0, file_list: [],
\* db_size_mb: 0} and no error (the store being reachable).
C21_NoTableZeroStats ==
  \A c \in Procs :
    (calls[c].op = "getStats" /\ ~tableExists) =>
      /\ calls[c].pc = "gs_ok" =>
           /\ calls[c].stats.total_chunks = 0
           /\ calls[c].stats.total_files = 0
           /\ calls[c].stats.file_list = <<>>
           /\ calls[c].stats.db_size_mb = 0
      /\ calls[c].pc = "gs_err" => calls[c].err = "connect"

\* reindexAll dropped a table with rows and indexed nothing again; getStats
\* then returned its statistics.
C21_StatsAfterClear ==
  \E c \in Procs :
    /\ calls[c].op = "getStats" /\ calls[c].pc = "gs_ok"
    /\ ~tableExists
    /\ prev # Nil /\ prev.cleared

\* ------------------------------------------------------ claims on embedding
\* C29: embedBatch returns one vector for every text, in the order of the
\* texts, whatever their number (a multiple of the batch size 32 or not),
\* and addChunks stores every chunk with the vector of its own text.
C29_OneVectorPerChunk ==
  \A c \in Procs :
    calls[c].op = "addChunks" =>
      /\ calls[c].pc = "ac_insert" =>
           /\ Len(calls[c].returned) = Len(calls[c].chunks)
           /\ \A k \in 1..Len(calls[c].chunks) :
                calls[c].returned[k] = embed(calls[c].chunks[k].text)
      /\ calls[c].pc = "ac_ok" =>
           /\ Len(rows[calls[c].path]) = Len(calls[c].chunks)
           /\ \A k \in 1..Len(calls[c].chunks) :
                /\ rows[calls[c].path][k].id = calls[c].chunks[k].id
                /\ rows[calls[c].path][k].text = calls[c].chunks[k].text
                /\ rows[calls[c].path][k].embedding = embed(calls[c].chunks[k].text)

\* 33 chunks, one more than a batch, were embedded in two batches and stored.
C29_TwoBatchesStored ==
  \E c \in Procs :
    /\ calls[c].op = "addChunks" /\ calls[c].pc = "ac_ok"
    /\ Len(calls[c].chunks) = 33
    /\ calls[c].i = 64
    /\ Len(rows[calls[c].path]) = 33

\* C30: when the embedding of a text fails in any batch, embedBatch fails as
\* a whole and returns no vector, those of the earlier batches included, and
\* addChunks writes no row to the store.
C30_EmbedBatchAllOrNothing ==
  \A c \in Procs :
    (calls[c].op = "addChunks" /\ "embed" \in calls[c].stepsFailed) =>
      /\ calls[c].pc = "ac_err"
      /\ calls[c].returned = Nil
      /\ AllRows = <<>>
      /\ table = tableExists

\* The second batch failed after the 32 vectors of the first were computed.
C30_SecondBatchFailed ==
  \E c \in Procs :
    /\ calls[c].op = "addChunks" /\ calls[c].pc = "ac_err"
    /\ calls[c].i = 32
    /\ Len(calls[c].embeddings) = 32
    /\ Len(calls[c].chunks) > 32

\* ------------------------------------------- claims on the embedding model
\* C31: the load of the embedding model is single-flight and memoized: for
\* every interleaving of initialize, embed and embedBatch calls at most one
\* load is in flight, a caller that arrives during a load awaits that load,
\* and no load is started once the model is loaded.
C31_SingleFlightLoad ==
  [][ /\ Cardinality(loads') <= 1
      /\ (loads # {} => loads' \subseteq loads)
      /\ (model => loads' = {})
      /\ \A c \in Procs :
           (calls[c].pc = "es_init" /\ calls'[c].pc # "es_init" /\ loads # {}) =>
              /\ calls'[c].pc = "es_wait"
              /\ calls'[c].awaits \in loads ]_vars

\* Two callers await the one load in flight, the second did not start it.
C31_TwoAwaitOneLoad ==
  /\ loads = {1}
  /\ calls[1].pc = "es_wait" /\ calls[1].awaits = 1
  /\ calls[2].pc = "es_wait" /\ calls[2].awaits = 1
  /\ ~calls[2].startedLoad

\* C39: a failed load of the embedding model does not wedge the service:
\* every caller that awaited the load receives the failure, the service is
\* back in the uninitialized state (no model, no load in flight, no promise),
\* the next call starts a new load, and once a load has succeeded the model
\* stays and later calls go on without loading again.
C39_FailedLoadRecovers ==
  [][ /\ \A l \in loads \ loads' :
           ~model' =>
             /\ initializationPromise' = NoLoad
             /\ loads' = {}
             /\ \A c \in Procs :
                  (calls[c].pc = "es_wait" /\ calls[c].awaits = l) =>
                     (calls'[c].pc = "es_err" /\ calls'[c].err = "load")
      /\ \A c \in Procs : calls'[c].pc = "es_wait" => calls'[c].awaits \in loads'
      /\ \A c \in Procs :
           (calls[c].pc = "es_init" /\ calls'[c].pc # "es_init") =>
              /\ (~model /\ loads = {}) =>
                    (loads' = {c} /\ calls'[c].pc = "es_wait" /\ calls'[c].awaits = c)
              /\ model => (loads' = {} /\ calls'[c].pc \in {"es_ok", "es_model", "eb_batch"})
      /\ (model => model') ]_vars

\* Caller 1 still holds the failure of its load while caller 2, which started
\* a new load afterwards, has its embedding.
C39_LoadedAfterFailure ==
  /\ calls[1].pc = "es_err" /\ calls[1].err = "load" /\ calls[1].startedLoad
  /\ calls[2].op = "embed" /\ calls[2].pc = "es_ok" /\ calls[2].startedLoad
  /\ model

\* ------------------------------------------------- claims on the store
\* C32: opening the store is idempotent and happens once: over any number of
\* initialize() calls, one after the other or overlapping, a connection is
\* established only while none is held, a call that finds the connection
\* leaves connection and table handle as they are, and initialize never
\* creates the table.
C32_OpensOnce ==
  [][ /\ \A c \in Procs :
           (calls[c].pc = "vi_connect" /\ calls'[c].pc = "vi_names") => ~db
      /\ \A c \in Procs :
           (calls[c].pc = "vi_enter" /\ calls'[c].pc = "vi_ok") =>
              (db' = db /\ table' = table)
      /\ tableExists' = tableExists
      /\ (table' => tableExists') ]_vars

\* C33: after a successful deleteFileChunks(p) no row whose file_path is the
\* normalized path of p remains in the store, and every row of another
\* file_path is left as it was.
C33_DeleteFrame ==
  [][ \A c \in Procs :
        (calls[c].pc = "df_call" /\ calls'[c].pc = "df_ok" /\ calls'[c].ret = 1) =>
           \A k \in Paths :
             rows'[k] = SelectSeq(rows[k],
                          LAMBDA row : row.file_path # resolve(calls[c].path)) ]_vars

\* A delete by a relative path removed the rows of its file and left the rows
\* of another file.
C33_DeletedOneFile ==
  \E c \in Procs :
    /\ calls[c].op = "deleteFileChunks" /\ calls[c].pc = "df_ok" /\ calls[c].ret = 1
    /\ calls[c].path = <<"a">>
    /\ Len(calls[c].candidates) = 1
    /\ Len(AllRows) = 1

\* C34: for every path, paths with quotes included, the predicate built for
\* the delete by path and for the path filter of search is accepted by the
\* store and selects exactly the rows whose file_path is that path: no path
\* makes it select the rows of another path or all rows.
C34_PredicateSelectsPath ==
  \A c \in Procs :
    /\ calls[c].pc \in {"df_call", "ps_call"} =>
         /\ parses(pathPredicate(calls[c].path))
         /\ \A k \in Paths : \A i \in 1..Len(rows[k]) :
              where(pathPredicate(calls[c].path), rows[k][i])
                <=> (rows[k][i].file_path = resolve(calls[c].path))
    /\ (calls[c].pc = "ps_ok" /\ table) =>
         calls[c].candidates =
           SelectSeq(AllRows, LAMBDA row : row.file_path = resolve(calls[c].path))
    /\ calls[c].pc = "df_ok" => (calls[c].ret = 1 \/ ~table \/ faults > 0)

\* The filter is a path that closes the literal and adds a condition true of
\* every row; the store holds the rows of two other files and none is selected.
C34_InjectionSelectsNothing ==
  \E c \in Procs :
    /\ calls[c].pc = "ps_ok" /\ table
    /\ calls[c].path = <<"/", "a", "'", " OR ", "'", "'", "=", "'">>
    /\ calls[c].candidates = <<>>
    /\ Len(AllRows) = 2

\* ------------------------------------------------- claims on the server
\* C35: every tool call (search, index_file, index_directory, reindex_all,
\* get_stats or an unknown name, with valid or invalid arguments, whatever
\* fails inside) ends in a success payload or in an error response with a
\* message; no failure leaves the request handler as an exception.
C35_NoFailureEscapes ==
  \A c \in Procs :
    calls[c].op = "callTool" =>
      /\ calls[c].pc # "ct_escaped"
      /\ calls[c].pc = "ct_done" =>
           /\ calls[c].response # Nil
           /\ calls[c].response.isError <=> calls[c].thrownAt # ""
           /\ calls[c].response.isError =>
                (Len(calls[c].response.text) = 2 /\ calls[c].response.text[2] # "")

\* An unknown tool name and a reindex_all with a number for workspace_root
\* were both answered with an error response.
C35_ErrorResponses ==
  /\ calls[1].pc = "ct_done" /\ calls[1].tool = "unknown_tool"
  /\ calls[1].response.isError /\ calls[1].thrownAt = "switch"
  /\ calls[2].pc = "ct_done" /\ calls[2].tool = "reindex_all"
  /\ calls[2].response.isError /\ calls[2].thrownAt = "arguments"

\* ------------------------------------------------ claims on indexFile
\* C36: indexFile reads the file before it deletes anything: the read is the
\* first step of the call and leaves the store as it is, and when the read
\* fails (the file is missing or unreadable) indexFile fails there, so that
\* the rows indexed before for the path are still in the store.
C36_ReadBeforeDelete ==
  [][ \A c \in Procs :
        /\ (calls[c].pc \notin Running /\ calls'[c].pc \in Running) =>
              calls'[c].pc = "if_read"
        /\ (calls[c].pc = "if_read" /\ calls'[c].pc # "if_read") =>
              /\ rows' = rows
              /\ tableExists' = tableExists
              /\ disk[calls[c].path] = Missing =>
                   (calls'[c].pc = "if_err" /\ calls'[c].err = "read")
        /\ (calls'[c].pc = "if_err" /\ calls'[c].err = "read"
              /\ calls[c].pc # "if_err") =>
              (calls[c].pc = "if_read" /\ rows' = rows) ]_vars

\* The file was indexed, then removed; indexFile failed at the read and the
\* rows of the file are still there.
C36_RowsKeptAfterFailedRead ==
  \E c \in Procs :
    /\ calls[c].op = "indexFile" /\ calls[c].pc = "if_err" /\ calls[c].err = "read"
    /\ disk[calls[c].path] = Missing
    /\ rows[calls[c].path] # <<>>

\* C37: indexFile on a file whose content is empty or only white space
\* returns 0 and writes nothing: no embedding is asked for, and afterwards
\* the store holds no row for the path.
C37_EmptyFileWritesNothing ==
  \A c \in Procs :
    (calls[c].pc \in Running \cup {"if_ok"} /\ calls[c].content = "blank") =>
      /\ calls[c].pc \notin {"if_embed", "if_insert", "if_inserting"}
      /\ calls[c].pc = "if_ok" =>
           (calls[c].ret = 0 /\ rows[calls[c].path] = <<>>)

\* C40: two indexFile calls on different paths that overlap in time, from
\* any state of the store, a store without a table included, both complete
\* successfully and leave each path with exactly its own chunks: a call that
\* overlaps no call on its own path fails only when its file cannot be read,
\* and when it has returned its path holds the chunks of the content it read.
C40_DifferentPathsBothSucceed ==
  \A c \in Procs :
    (calls[c].op = "indexFile" /\ ~calls[c].overlapped) =>
      /\ calls[c].pc = "if_err" => calls[c].err = "read"
      /\ ( /\ calls[c].pc = "if_ok"
           /\ calls[c].latest
           /\ \A d \in Procs \ {c} :
                ~(calls[d].pc \in Running /\ calls[d].path = calls[c].path) )
         => rows[calls[c].path] = ExpectedRows(calls[c].content, calls[c].path)

\* the state of the paragraph loop of chunkDocument before paragraph i
LoopStateBefore(content, i, filePath) ==
  chunkLoop(SubSeq(split(content), 1, i - 1), 1,
            [ chunks |-> <<>>, currentChunk |-> <<>>, currentLineStart |-> 1,
              currentLineCount |-> 0, chunkIndex |-> 0 ], filePath)

\* C38 (flush rule): before a paragraph P is appended the buffer is flushed
\* as a chunk and restarted with P if and only if the buffer is not empty,
\* the buffer with P appended, separator included, would be longer than
\* maxChunkSize, and the buffer is at least minChunkSize long; otherwise P
\* is appended to the buffer.
C38_FlushRule ==
  \A c \in Procs :
    ChunkerReturned(c) =>
      \A i \in 1..Len(split(calls[c].input)) :
        LET P == split(calls[c].input)[i]
            st == LoopStateBefore(calls[c].input, i, calls[c].path)
            after == chunkStep(st, P, calls[c].path)
            size == TextLen(st.currentChunk)
        IN P.len > 0 =>
             IF size > 0 /\ size + SeparatorLen + P.len > maxChunkSize
                  /\ size >= minChunkSize
             THEN /\ Len(after.chunks) = Len(st.chunks) + 1
                  /\ after.currentChunk = <<P>>
             ELSE /\ after.chunks = st.chunks
                  /\ after.currentChunk = Append(st.currentChunk, P)

=============================================================================
